---- MODULE Spec2Model ----
(***************************************************************************)
(* CFBasic: the bounded allocator (utils.c: init_memory, safe_malloc,      *)
(* safe_realloc, safe_free, get_free_memory, str_duplicate) and the        *)
(* top-level driver (cfbasic.c: handle_sigint, execute_immediate_command,  *)
(* repl, main) together with the editor entry points the driver calls      *)
(* (editor.c: editor_init, editor_read_line, editor_free).                 *)
(*                                                                         *)
(* SpecAlloc drives the allocator through arbitrary call sequences.        *)
(* Spec runs main (load-and-run or REPL) with SIGINT delivered at any      *)
(* point; FairSpec is Spec with the driver's own steps weakly fair.        *)
(* SpecEditor drives one Editor (editor.c) through arbitrary sequences of  *)
(* calls.  SpecMain runs main's argument loop and parse_memory_size over   *)
(* argument vectors.                                                       *)
(***************************************************************************)
EXTENDS Integers, Sequences, FiniteSets

(***************************************************************************)
(* Bounds of the model.                                                    *)
(***************************************************************************)
\* size_t is modelled as the integers modulo SizeMod (2^64 in the build).
SizeMod == 256
\* Number of blocks that can be live at once (handles 1..MaxHandles).
MaxHandles == 2

\* Number of safe_realloc calls with a wrong old_size that are explored.
MaxMisuse == 1

(***************************************************************************)
(* Program constants.                                                      *)
(***************************************************************************)
\* sizeof(size_t): the header safe_malloc puts in front of every block.
SizeofSizeT == 8

NULL == 0
NoBlock == -1
Handles == 1..MaxHandles

\* Request sizes tried by the allocator's callers: small requests, and
\* size_t values so large that size + sizeof(size_t) wraps.
Sizes == {0, 24, SizeMod - 3}
\* Values of the limit handed to init_memory.
Limits == {36, 40, SizeMod - 1}

\* ---- the driver's inputs ----
\* Blocks that can be live at once while the driver runs: screen buffer,
\* input line, token text, error message and one message whose pointer was
\* overwritten.
DriverHandles == 1..(MaxHandles + 3)
\* rows * cols of the terminal, the size editor_init asks for.
ScreenCells == 24
\* Longest input line picked from the screen.
MaxLineLen == 5
\* strlen("FILENAME REQUIRED"), the message of cfbasic.c lines 192 and 206.
MsgLen == 17
\* Memory limits given with -M: too small for the screen buffer, too small
\* for an input line, too small for an error message, and ample.
DriverLimits == {16, 36, 50, SizeMod - 1}
\* SIGINTs delivered to the process in one execution.
MaxSignals == 2
\* The address of main's Interpreter object, as stored in global_interp.
InterpAddr == 1

\* First tokens execute_immediate_command tells apart ("STMT": any other).
Cmds == {"LIST", "RUN", "NEW", "LOAD", "SAVE", "EXIT", "HELP", "MEMCHK", "CLR", "STMT"}

\* ---- input lines ----
\* An input line is a sequence of characters: decimal digits, the blank, "-",
\* and, each written as one element, a keyword of Cmds ("STMT": the text of any
\* other statement) or a string literal ("STR").
\* Width of int; long is twice as wide (LP64).  The build has 32 and 64 bits.
IntBits == 4
IntMod == 2 ^ IntBits
IntMin == -(IntMod \div 2)
IntMax == (IntMod \div 2) - 1
LongMax == 2 ^ (2 * IntBits - 1) - 1

DigitChars == <<"0", "1", "2", "3", "4", "5", "6", "7", "8", "9">>

\* Digit strings a line can start with: zero, an int, INT_MAX + 1, values that
\* wrap to 0 and to 1 when converted to int, and one beyond LONG_MAX.
DigitStrings == {<<"0">>, <<"7">>, <<"8">>, <<"1", "6">>, <<"1", "7">>, <<"2", "0", "0">>}
NumberedLines == {d \o rest : d \in DigitStrings, rest \in {<<>>, <<" ", "STMT">>}}
ImmediateLines ==
  {<<c>> : c \in Cmds} \cup
  {<<"LIST", "1">>, <<"LIST", "1", "-">>, <<"LIST", "1", "-", "2">>,
   <<"LOAD", "STR">>, <<"SAVE", "STR">>, <<"LOAD", "1">>}
\* The non-empty lines the user types (editor_read_line trims the blanks at
\* both ends).
Lines == {l \in NumberedLines \cup ImmediateLines : Len(l) <= MaxLineLen}

VARIABLES
  total_memory_limit,  \* utils.c: size_t total_memory_limit
  memory_used,         \* utils.c: size_t memory_used
  hdr,                 \* handle -> size recorded in the block's header, NoBlock when not allocated
  proc,                \* "running", or how the process ended
  last,                \* the allocator call just made (SpecAlloc)
  misuse,              \* number of safe_realloc calls given an old_size other than the block's recorded size
  pc,                  \* where main / repl / interpreter_run stands
  filename,            \* main: a filename was given on the command line
  interp_live,         \* main's Interpreter is initialised and not yet freed
  exit_requested,      \* interp->exit_requested
  break_requested,     \* interp->break_requested
  error_occurred,      \* interp->error_occurred
  error_message,       \* interp->error_message (NULL or a block)
  error_text,          \* the string error_message points to ("" when it is NULL)
  global_interp,       \* cfbasic.c: static Interpreter *global_interp
  sigint_handler,      \* disposition of SIGINT: "SIG_DFL" or "handle_sigint"
  raw_mode,            \* the terminal is in raw mode
  ed_buffer,           \* ed.buffer (NULL or a block)
  line,                \* repl: char *line (NULL or a block)
  line_len,            \* strlen(line)
  cmd,                 \* first token of the immediate command being executed, "none" otherwise
  out,                 \* what the driver printed since the last line was read
  sig_count,           \* SIGINTs delivered so far
  cmd_left,            \* the error slot as the last immediate command left it
  null_deref,          \* a NULL returned by the allocator was written through
  oom_line,            \* editor_read_line returned NULL because the allocator refused
  typed,               \* the text of the line editor_read_line picked (<<>>: none or empty)
  calls,               \* the calls repl and execute_immediate_command made for the current line
  used_at_read,        \* memory_used when editor_read_line was called for the current line
  tok_double,          \* token_free was called on a token already released
  tok_lost,            \* a token was overwritten or dropped without token_free
  ed,                  \* editor.c: the Editor (rows, cols, cursor_row, cursor_col, buffer)
  stdout_pending,      \* stdout holds output that was written and not yet flushed
  ed_last,             \* the editor call just made (SpecEditor)
  ed_ops,              \* number of editor calls made so far
  read_unflushed,      \* an input character was requested while stdout held unflushed output
  ed_oob,              \* ed.buffer was accessed outside its rows * cols cells
  argv,                \* main: the arguments after the program name (SpecMain)
  main_result          \* what main did with argv

allocVars == <<total_memory_limit, memory_used, hdr>>
apiVars == <<last, misuse>>

(***************************************************************************)
(* The allocator (src/unnamed/part_000, lines 523-591).                    *)
(***************************************************************************)
\* size + sizeof(size_t), in size_t arithmetic.
TotalSize(size) == (size + SizeofSizeT) % SizeMod

LiveIn(hd) == {h \in DOMAIN hd : hd[h] # NoBlock}
FreeIn(hd) == {h \in DOMAIN hd : hd[h] = NoBlock}

RECURSIVE SumTotals(_, _)
SumTotals(hd, S) ==
  IF S = {} THEN 0
  ELSE LET h == CHOOSE x \in S : TRUE
       IN TotalSize(hd[h]) + SumTotals(hd, S \ {h})

\* Bytes the blocks of hd really occupy: each was obtained by
\* malloc(TotalSize(recorded size)).
HeapBytes(hd) == SumTotals(hd, LiveIn(hd))

\* The system allocator can hand out n more bytes only inside the address
\* space (it may still fail below that).
SysCanAllocate(hd, n) == HeapBytes(hd) + n < SizeMod

\* init_memory(limit)
InitMemory(limit) == [limit |-> limit, used |-> 0]

\* safe_malloc with the ceiling test made on the payload alone (header forgotten).
SafeMallocPayloadTest(used, hd, size, h, sys_ok) ==
  LET total_size == TotalSize(size) IN
  IF (used + size) % SizeMod > total_memory_limit
  THEN [ret |-> NULL, used |-> used, hdr |-> hd, exit |-> FALSE, refused |-> TRUE]
  ELSE IF ~sys_ok
  THEN [ret |-> NULL, used |-> used, hdr |-> hd, exit |-> TRUE, refused |-> FALSE]
  ELSE [ret |-> h, used |-> (used + total_size) % SizeMod,
        hdr |-> [hd EXCEPT ![h] = size], exit |-> FALSE, refused |-> FALSE]

\* safe_malloc(size) in the state (used, hd).  h is the block malloc returns
\* when it succeeds, sys_ok whether it succeeds.
SafeMalloc(used, hd, size, h, sys_ok) ==
  LET total_size == TotalSize(size) IN
  IF (used + total_size) % SizeMod > total_memory_limit
  THEN [ret |-> NULL, used |-> used, hdr |-> hd, exit |-> FALSE, refused |-> TRUE]
  ELSE IF ~sys_ok
  THEN [ret |-> NULL, used |-> used, hdr |-> hd, exit |-> TRUE, refused |-> FALSE]
  ELSE [ret |-> h, used |-> (used + total_size) % SizeMod,
        hdr |-> [hd EXCEPT ![h] = size], exit |-> FALSE, refused |-> FALSE]

\* safe_realloc that charges the ledger before the ceiling test and does not
\* undo the charge when it refuses.
SafeReallocChargeFirst(used, hd, ptr, old_size, new_size, h, sys_ok) ==
  IF ptr = NULL THEN SafeMalloc(used, hd, new_size, h, sys_ok)
  ELSE
  LET new_used == (used - TotalSize(old_size) + TotalSize(new_size)) % SizeMod IN
  IF new_used > total_memory_limit
  THEN [ret |-> NULL, used |-> new_used, hdr |-> hd, exit |-> FALSE, refused |-> TRUE]
  ELSE IF ~sys_ok
  THEN [ret |-> NULL, used |-> used, hdr |-> hd, exit |-> TRUE, refused |-> FALSE]
  ELSE [ret |-> h, used |-> new_used,
        hdr |-> [[hd EXCEPT ![ptr] = NoBlock] EXCEPT ![h] = new_size],
        exit |-> FALSE, refused |-> FALSE]

\* safe_realloc(ptr, old_size, new_size).  h is where realloc puts the block
\* (ptr itself or a free handle).
SafeRealloc(used, hd, ptr, old_size, new_size, h, sys_ok) ==
  IF ptr = NULL THEN SafeMalloc(used, hd, new_size, h, sys_ok)
  ELSE
  LET total_new_size == TotalSize(new_size)
      total_old_size == TotalSize(old_size)
      new_used == (used - total_old_size + total_new_size) % SizeMod
  IN
  IF new_used > total_memory_limit
  THEN [ret |-> NULL, used |-> used, hdr |-> hd, exit |-> FALSE, refused |-> TRUE]
  ELSE IF ~sys_ok
  THEN [ret |-> NULL, used |-> used, hdr |-> hd, exit |-> TRUE, refused |-> FALSE]
  ELSE [ret |-> h, used |-> new_used,
        hdr |-> [[hd EXCEPT ![ptr] = NoBlock] EXCEPT ![h] = new_size],
        exit |-> FALSE, refused |-> FALSE]

\* safe_free that gives back the payload but not the header.
SafeFreePayloadOnly(used, hd, ptr) ==
  IF ptr # NULL
  THEN [used |-> (used - hd[ptr]) % SizeMod,
        hdr |-> [hd EXCEPT ![ptr] = NoBlock]]
  ELSE [used |-> used, hdr |-> hd]

\* safe_free(ptr)
SafeFree(used, hd, ptr) ==
  IF ptr # NULL
  THEN [used |-> (used - TotalSize(hd[ptr])) % SizeMod,
        hdr |-> [hd EXCEPT ![ptr] = NoBlock]]
  ELSE [used |-> used, hdr |-> hd]

\* get_free_memory()
GetFreeMemory == (total_memory_limit - memory_used) % SizeMod

(***************************************************************************)
(* SpecAlloc: the allocator under arbitrary call sequences.                *)
(***************************************************************************)
NoCall == [op |-> "none", ptr |-> NULL, a |-> 0, b |-> 0, ret |-> NULL,
           used_before |-> 0, rec_before |-> NoBlock, refused |-> FALSE]

interpVars == <<interp_live, exit_requested, break_requested, error_occurred, error_message,
                error_text>>
signalVars == <<global_interp, sigint_handler, sig_count>>
editorVars == <<raw_mode, ed_buffer>>
replVars == <<line, line_len, cmd, out, cmd_left>>
ghostVars == <<null_deref, oom_line>>
lineVars == <<typed, calls, used_at_read, tok_double, tok_lost>>
driverVars == <<pc, filename, interpVars, signalVars, editorVars, replVars, ghostVars, lineVars>>
screenVars == <<ed, stdout_pending, ed_last, ed_ops, read_unflushed, ed_oob>>
mainVars == <<argv, main_result>>
\* The state of the units that SpecEditor and SpecMain run on their own.
unitVars == <<screenVars, mainVars>>

vars == <<allocVars, proc, apiVars, driverVars, unitVars>>

\* No Editor is under test outside SpecEditor.
NoEditor == [rows |-> 0, cols |-> 0, cursor_row |-> 0, cursor_col |-> 0, buffer |-> <<>>]
NoEditorCall == [op |-> "none", x |-> 0, y |-> 0, c |-> 0, before |-> NoEditor,
                 wrote |-> FALSE]
EditorIdle ==
  /\ ed = NoEditor
  /\ stdout_pending = FALSE
  /\ ed_last = NoEditorCall
  /\ ed_ops = 0
  /\ read_unflushed = FALSE
  /\ ed_oob = FALSE

\* main has not parsed a command line outside SpecMain.
NoResult ==
  [status |-> "none", i |-> 0, memory_limit |-> 0, has_file |-> FALSE, filename |-> <<>>,
   exit_code |-> 0, usage |-> FALSE, arg |-> <<>>, size |-> "none", size_str |-> <<>>,
   parsed |-> 0, steps |-> <<>>]
MainIdle ==
  /\ argv = <<>>
  /\ main_result = NoResult

\* The driver is not running in SpecAlloc.
DriverUnused ==
  /\ pc = "idle"
  /\ filename = FALSE
  /\ interp_live = FALSE
  /\ exit_requested = FALSE
  /\ break_requested = FALSE
  /\ error_occurred = FALSE
  /\ error_message = NULL
  /\ error_text = ""
  /\ global_interp = NULL
  /\ sigint_handler = "SIG_DFL"
  /\ raw_mode = FALSE
  /\ ed_buffer = NULL
  /\ line = NULL
  /\ line_len = 0
  /\ cmd = "none"
  /\ out = <<>>
  /\ sig_count = 0
  /\ cmd_left = "none"
  /\ null_deref = FALSE
  /\ oom_line = FALSE
  /\ typed = <<>>
  /\ calls = <<>>
  /\ used_at_read = 0
  /\ tok_double = FALSE
  /\ tok_lost = FALSE

\* Only the allocator runs: the driver and the other units stay as they start.
DriverIdle ==
  /\ DriverUnused
  /\ EditorIdle
  /\ MainIdle

InitAlloc ==
  /\ \E limit \in Limits :
       /\ total_memory_limit = InitMemory(limit).limit
       /\ memory_used = InitMemory(limit).used
  /\ hdr = [h \in Handles |-> NoBlock]
  /\ proc = "running"
  /\ last = NoCall
  /\ misuse = 0
  /\ DriverIdle

ApiMalloc ==
  /\ proc = "running"
  /\ \E size \in Sizes, h \in FreeIn(hdr), sys_fails \in BOOLEAN :
       /\ ~sys_fails => SysCanAllocate(hdr, TotalSize(size))
       /\ LET r == SafeMalloc(memory_used, hdr, size, h, ~sys_fails) IN
          /\ memory_used' = r.used
          /\ hdr' = r.hdr
          /\ proc' = IF r.exit THEN "exit1" ELSE "running"
          /\ last' = [op |-> "malloc", ptr |-> NULL, a |-> 0, b |-> size,
                      ret |-> r.ret, used_before |-> memory_used,
                      rec_before |-> NoBlock, refused |-> r.refused]
  /\ UNCHANGED <<total_memory_limit, misuse, driverVars, unitVars>>

ApiRealloc ==
  /\ proc = "running"
  /\ \E ptr \in LiveIn(hdr) \cup {NULL}, old_size \in Sizes, new_size \in Sizes,
        sys_fails \in BOOLEAN :
       \E h \in (FreeIn(hdr) \cup {ptr}) \ {NULL} :
         /\ ~sys_fails => SysCanAllocate([hdr EXCEPT ![h] = NoBlock], TotalSize(new_size))
         /\ LET r == SafeRealloc(memory_used, hdr, ptr, old_size, new_size, h, ~sys_fails) IN
            /\ memory_used' = r.used
            /\ hdr' = r.hdr
            /\ proc' = IF r.exit THEN "exit1" ELSE "running"
            /\ last' = [op |-> "realloc", ptr |-> ptr, a |-> old_size, b |-> new_size,
                        ret |-> r.ret, used_before |-> memory_used,
                        rec_before |-> IF ptr = NULL THEN NoBlock ELSE hdr[ptr],
                        refused |-> r.refused]
            /\ misuse' = IF ptr # NULL /\ old_size # hdr[ptr] THEN misuse + 1 ELSE misuse
            /\ misuse' <= MaxMisuse
  /\ UNCHANGED <<total_memory_limit, driverVars, unitVars>>

ApiFree ==
  /\ proc = "running"
  /\ \E ptr \in LiveIn(hdr) \cup {NULL} :
       LET r == SafeFree(memory_used, hdr, ptr) IN
       /\ memory_used' = r.used
       /\ hdr' = r.hdr
       /\ last' = [op |-> "free", ptr |-> ptr, a |-> 0, b |-> 0, ret |-> NULL,
                   used_before |-> memory_used,
                   rec_before |-> IF ptr = NULL THEN NoBlock ELSE hdr[ptr],
                   refused |-> FALSE]
  /\ UNCHANGED <<total_memory_limit, proc, misuse, driverVars, unitVars>>

NextAlloc == ApiMalloc \/ ApiRealloc \/ ApiFree

SpecAlloc == InitAlloc /\ [][NextAlloc]_vars

(***************************************************************************)
(* Claims about the allocator (checked under SpecAlloc).                   *)
(***************************************************************************)
\* C1: as long as safe_realloc is always given the block's recorded size and
\* safe_free is called on live blocks only, memory_used <= total_memory_limit
\* in every reachable state, so get_free_memory() is the true difference
\* total_memory_limit - memory_used and never wraps below zero.
C1_UsedWithinLimit ==
  misuse = 0 =>
    /\ memory_used <= total_memory_limit
    /\ GetFreeMemory = total_memory_limit - memory_used

\* The ledger is filled to the last byte by two live blocks.
C1_Witness ==
  /\ misuse = 0
  /\ memory_used = total_memory_limit
  /\ LiveIn(hdr) = Handles

C3_RefusedAtCeiling ==
  /\ (last.op = "malloc" /\ last.used_before + last.b + SizeofSizeT > total_memory_limit)
       => (last.ret = NULL /\ memory_used = last.used_before /\ proc = "running")
  /\ (proc = "exit1" => ~last.refused)

\* C4 (as claimed): a safe_realloc refused at the ceiling returns NULL, leaves
\* memory_used unchanged and the original block live with its recorded size;
\* a successful one changes memory_used by exactly new_size - old_size and
\* records new_size.
C4_ReallocAsClaimed ==
  last.op = "realloc" =>
    /\ last.refused =>
         /\ last.ret = NULL
         /\ memory_used = last.used_before
         /\ (last.ptr # NULL => hdr[last.ptr] = last.rec_before)
    /\ last.ret # NULL =>
         /\ memory_used = (last.used_before + last.b - last.a) % SizeMod
         /\ hdr[last.ret] = last.b

\* C4 (amended): the above holds for a non-NULL ptr; with ptr = NULL
\* safe_realloc is safe_malloc(new_size), and success adds
\* new_size + sizeof(size_t) to memory_used whatever old_size is.
C4_ReallocAmended ==
  last.op = "realloc" =>
    /\ last.refused =>
         /\ last.ret = NULL
         /\ memory_used = last.used_before
         /\ (last.ptr # NULL => hdr[last.ptr] = last.rec_before)
    /\ (last.ret # NULL /\ last.ptr # NULL) =>
         /\ memory_used = (last.used_before + last.b - last.a) % SizeMod
         /\ hdr[last.ret] = last.b
    /\ (last.ret # NULL /\ last.ptr = NULL) =>
         /\ memory_used = (last.used_before + last.b + SizeofSizeT) % SizeMod
         /\ hdr[last.ret] = last.b

\* A resize of a live block has just been refused at the ceiling.
C4_Witness ==
  /\ last.op = "realloc"
  /\ last.ptr # NULL
  /\ last.refused
  /\ last.b > last.rec_before

(***************************************************************************)
(* Input lines: is_immediate_command, extract_line_number (src/cfbasic.c,  *)
(* lines 97-123) and the token stream of the lexer.                        *)
(***************************************************************************)
isdigit(c) == \E i \in 1..Len(DigitChars) : DigitChars[i] = c
DigitValue(c) == (CHOOSE i \in 1..Len(DigitChars) : DigitChars[i] = c) - 1
isblank(c) == c = " "

\* while (*line == ' ' || *line == '\t') line++;
RECURSIVE SkipBlanks(_)
SkipBlanks(s) ==
  IF s # <<>> /\ isblank(Head(s)) THEN SkipBlanks(Tail(s)) ELSE s

\* is_immediate_command(line)
is_immediate_command(l) ==
  LET s == SkipBlanks(l) IN ~(s # <<>> /\ isdigit(Head(s)))

\* strtol(s, &endptr, 10) on a string that starts with a digit: the value of
\* the digit run, LONG_MAX when it does not fit in long.
RECURSIVE StrtolFrom(_, _)
StrtolFrom(s, acc) ==
  IF s # <<>> /\ isdigit(Head(s))
  THEN LET v == acc * 10 + DigitValue(Head(s)) IN
       StrtolFrom(Tail(s), IF v > LongMax THEN LongMax ELSE v)
  ELSE [value |-> acc, endptr |-> s]
strtol(s) == StrtolFrom(s, 0)

\* Conversion of a long to int (int line_num = strtol(...)): the value modulo
\* 2^IntBits, as the usual builds do.
LongToInt(v) == ((v - IntMin) % IntMod) + IntMin

\* extract_line_number(line, &rest): num is the value returned, rest the text
\* *rest points to (meaningless when num is -1 for a line without number).
extract_line_number(l) ==
  LET s == SkipBlanks(l) IN
  IF ~(s # <<>> /\ isdigit(Head(s)))
  THEN [num |-> -1, rest |-> <<>>]
  ELSE LET r == strtol(s) IN
       [num |-> LongToInt(r.value), rest |-> SkipBlanks(r.endptr)]

\* The decimal value of the digit string a line starts with.
RECURSIVE DecimalValue(_, _)
DecimalValue(s, acc) ==
  IF s # <<>> /\ isdigit(Head(s))
  THEN DecimalValue(Tail(s), acc * 10 + DigitValue(Head(s)))
  ELSE acc

\* The token types lexer_next_token delivers for a line, one per call, ending
\* with "EOF": a digit run is one NUMBER, blanks separate tokens.
RECURSIVE Tokens(_)
Tokens(s) ==
  IF s = <<>> THEN <<"EOF">>
  ELSE IF isblank(Head(s)) THEN Tokens(Tail(s))
  ELSE IF isdigit(Head(s)) THEN <<"NUMBER">> \o Tokens(strtol(s).endptr)
  ELSE IF Head(s) = "-" THEN <<"MINUS">> \o Tokens(Tail(s))
  ELSE IF Head(s) = "STR" THEN <<"STRING">> \o Tokens(Tail(s))
  ELSE <<Head(s)>> \o Tokens(Tail(s))

(***************************************************************************)
(* The driver: main, repl, handle_sigint (src/cfbasic.c) with the editor   *)
(* entry points it calls (src/unnamed/part_000).  The interpreter proper   *)
(* (interpreter_init, interpreter_load, interpreter_save, interpreter_run, *)
(* interpreter_execute_line, program_add_line, interpreter_free) is        *)
(* modelled from the specification: an operation either completes or       *)
(* raises an error into the single pending-error slot, and interpreter_run *)
(* polls break_requested at every statement boundary.                      *)
(***************************************************************************)
\* The static initial value of total_memory_limit (1 GB), before init_memory.
DefaultLimit == SizeMod - 1

LowestFree(hd) == CHOOSE h \in FreeIn(hd) : \A g \in FreeIn(hd) : h <= g

\* What safe_malloc(size) can do in the current state: refuse, succeed, or
\* end the process because malloc failed.
AllocOutcomesIn(used, hd, size) ==
  {SafeMalloc(used, hd, size, LowestFree(hd), ~sys_fails) :
     sys_fails \in {f \in BOOLEAN : ~f => SysCanAllocate(hd, TotalSize(size))}}
AllocOutcomes(size) == AllocOutcomesIn(memory_used, hdr, size)

\* str_duplicate(str) for a string of length len: a block of len + 1 bytes,
\* or NULL when safe_malloc refuses.
StrDuplicateOutcomesIn(used, hd, len) == AllocOutcomesIn(used, hd, len + 1)
StrDuplicateOutcomes(len) == StrDuplicateOutcomesIn(memory_used, hdr, len)

\* One call made for the current line.
Call(fn, num, text) == [fn |-> fn, num |-> num, text |-> text]

\* ---- tokens inside execute_immediate_command ----
\* Length of a token's text; its payload is a block of TokenTextLen + 1 bytes.
TokenTextLen == 1

\* "Token token" and the lexer at entry to execute_immediate_command, with
\* the allocator's state: no token obtained yet.
TokenStart(used, hd, toks) ==
  [used |-> used, hdr |-> hd, toks |-> toks, type |-> "none", text |-> NULL,
   held |-> FALSE, double |-> FALSE, lost |-> FALSE, exit |-> FALSE]

\* token = lexer_next_token(&lexer): the next token's type, its text in a
\* block of its own (NULL when the allocator refuses).  Overwriting a token
\* that was not released loses it.
LexerNextToken(t) ==
  IF t.exit THEN t
  ELSE LET r == SafeMalloc(t.used, t.hdr, TokenTextLen + 1, LowestFree(t.hdr),
                           SysCanAllocate(t.hdr, TotalSize(TokenTextLen + 1)))
       IN [t EXCEPT !.used = r.used, !.hdr = r.hdr, !.exit = r.exit,
                    !.type = Head(t.toks),
                    !.toks = IF Len(t.toks) > 1 THEN Tail(t.toks) ELSE t.toks,
                    !.text = r.ret, !.held = TRUE, !.lost = t.lost \/ t.held]

\* token_free(&token): releases the payload of the token held.
TokenFree(t) ==
  IF t.exit THEN t
  ELSE IF ~t.held THEN [t EXCEPT !.double = TRUE]
  ELSE LET f == SafeFree(t.used, t.hdr, t.text) IN
       [t EXCEPT !.used = f.used, !.hdr = f.hdr, !.text = NULL, !.held = FALSE]

\* F applied to the value of x.
Then(F(_), x) == CHOOSE y \in {F(t) : t \in {x}} : TRUE

\* The switch without its case TOK_MEMCHK: MEMCHK falls to the default case.
CommandOfNoMemchk(type) == IF type \in Cmds \ {"MEMCHK"} THEN type ELSE "STMT"

\* switch (token.type), lines 147-241: the case a first token selects.
CommandOf(type) == IF type \in Cmds THEN type ELSE "STMT"

\* execute_immediate_command from its entry to the point where the case of
\* command c does its work (lines 143-145, and 149-167, 175, 180, 185-186,
\* 199-200 of the case).
BeforeHandler(c, used, hd, toks) ==
  LET t == Then(LexerNextToken, TokenStart(used, hd, toks)) IN
  CASE c = "LIST" ->
         LET a == Then(LexerNextToken, Then(TokenFree, t)) IN
         IF a.type = "NUMBER"
         THEN LET b == Then(LexerNextToken, Then(TokenFree, a)) IN
              IF b.type \in {"COMMA", "MINUS"}
              THEN Then(LexerNextToken, Then(TokenFree, b))
              ELSE b
         ELSE a
    [] c \in {"RUN", "NEW"} -> Then(TokenFree, t)
    [] c \in {"LOAD", "SAVE"} -> Then(LexerNextToken, Then(TokenFree, t))
    [] OTHER -> t

\* The rest of the case after its work (lines 170, 194, 208, 214, 219, 224,
\* 233, 239): token_free, except for RUN and NEW which released it before.
AfterHandler(c, t) == IF c \in {"RUN", "NEW"} THEN t ELSE Then(TokenFree, t)

\* The function the case of command c calls ("none": EXIT only sets
\* exit_requested).
HandlerOf(c) ==
  CASE c = "LIST" -> "interpreter_list"
    [] c = "RUN" -> "interpreter_run"
    [] c = "NEW" -> "interpreter_new"
    [] c = "LOAD" -> "interpreter_load"
    [] c = "SAVE" -> "interpreter_save"
    [] c = "EXIT" -> "none"
    [] c = "HELP" -> "print_help"
    [] c = "MEMCHK" -> "print_memory_stats"
    [] c = "CLR" -> "editor_clear"
    [] OTHER -> "interpreter_execute_line"

\* What execute_immediate_command leaves behind when it returns in token
\* state t: the allocator's state, the process, the token bookkeeping.
TokenEffects(t) ==
  /\ memory_used' = t.used
  /\ hdr' = t.hdr
  /\ proc' = IF t.exit THEN "exit1" ELSE "running"
  /\ tok_double' = (tok_double \/ (~t.exit /\ t.double))
  /\ tok_lost' = (tok_lost \/ (~t.exit /\ (t.lost \/ t.held)))

LeftBy(eo, em) == IF ~eo THEN "none" ELSE IF em # NULL THEN "msg" ELSE "nomsg"

InitDriver ==
  /\ total_memory_limit = DefaultLimit
  /\ memory_used = 0
  /\ hdr = [h \in DriverHandles |-> NoBlock]
  /\ proc = "running"
  /\ last = NoCall
  /\ misuse = 0
  /\ pc = "main"
  /\ filename = FALSE
  /\ interp_live = FALSE
  /\ exit_requested = FALSE
  /\ break_requested = FALSE
  /\ error_occurred = FALSE
  /\ error_message = NULL
  /\ error_text = ""
  /\ global_interp = NULL
  /\ sigint_handler = "SIG_DFL"
  /\ raw_mode = FALSE
  /\ ed_buffer = NULL
  /\ line = NULL
  /\ line_len = 0
  /\ cmd = "none"
  /\ out = <<>>
  /\ sig_count = 0
  /\ cmd_left = "none"
  /\ null_deref = FALSE
  /\ oom_line = FALSE
  /\ typed = <<>>
  /\ calls = <<>>
  /\ used_at_read = 0
  /\ tok_double = FALSE
  /\ tok_lost = FALSE
  /\ EditorIdle
  /\ MainIdle

\* The text of an error the interpreter raises, and the lines repl can print
\* for a pending error.
InterpreterMessage == "MSG"
ErrorLines == {"?MSG ERROR", "?FILENAME REQUIRED ERROR", "?ERROR"}

\* An error is raised into the pending-error slot: error_occurred = true,
\* error_message = str_duplicate(<message>) (as in cfbasic.c lines 191-192).
RaiseError(r) ==
  /\ memory_used' = r.used
  /\ hdr' = r.hdr
  /\ proc' = IF r.exit THEN "exit1" ELSE "running"
  /\ error_occurred' = TRUE
  /\ error_message' = r.ret
  /\ error_text' = IF r.ret = NULL THEN "" ELSE InterpreterMessage

\* main, lines 312-347: the command line is parsed and init_memory called.
MainStart ==
  /\ proc = "running" /\ pc = "main"
  /\ \E limit \in DriverLimits, f \in BOOLEAN :
       /\ total_memory_limit' = InitMemory(limit).limit
       /\ memory_used' = InitMemory(limit).used
       /\ filename' = f
  /\ pc' = "interp_init"
  /\ UNCHANGED <<hdr, proc, apiVars, interpVars, signalVars, editorVars, replVars, ghostVars,
                 lineVars, unitVars>>

\* main, lines 350-361: interpreter_init, then load-and-run or the REPL.
InterpreterInit ==
  /\ proc = "running" /\ pc = "interp_init"
  /\ interp_live' = TRUE
  /\ exit_requested' = FALSE
  /\ break_requested' = FALSE
  /\ error_occurred' = FALSE
  /\ error_message' = NULL
  /\ error_text' = ""
  /\ pc' = IF filename THEN "main_load" ELSE "repl_editor_init"
  /\ UNCHANGED <<allocVars, proc, apiVars, filename, signalVars, editorVars, replVars, ghostVars,
                 lineVars, unitVars>>

\* main, line 355: interpreter_load(&interp, filename) succeeds.
MainLoadOk ==
  /\ proc = "running" /\ pc = "main_load"
  /\ pc' = "run_stmt"
  /\ UNCHANGED <<allocVars, proc, apiVars, filename, interpVars, signalVars, editorVars, replVars, ghostVars,
                 lineVars, unitVars>>

\* main, line 355: interpreter_load fails and raises its error; RUN is skipped.
MainLoadFails ==
  /\ proc = "running" /\ pc = "main_load"
  /\ FreeIn(hdr) # {}
  /\ \E r \in StrDuplicateOutcomes(MsgLen) : RaiseError(r)
  /\ pc' = "cleanup"
  /\ UNCHANGED <<total_memory_limit, apiVars, filename, interp_live, exit_requested,
                 break_requested, signalVars, editorVars, replVars, ghostVars,
                 lineVars, unitVars>>

\* Where interpreter_run returns to: repl (line 176) or main (line 356).
RunReturn == IF cmd = "RUN" THEN "exec_done" ELSE "cleanup"

\* interpreter_run at a statement boundary with a break pending: the run stops,
\* the flag is cleared and BREAK is reported.
RunBreak ==
  /\ proc = "running" /\ pc = "run_stmt"
  /\ break_requested
  /\ break_requested' = FALSE
  /\ out' = Append(out, "?BREAK")
  /\ pc' = RunReturn
  /\ cmd_left' = IF cmd = "RUN" THEN LeftBy(error_occurred, error_message) ELSE cmd_left
  /\ UNCHANGED <<allocVars, proc, apiVars, filename, interp_live, exit_requested,
                 error_occurred, error_message, error_text, signalVars, editorVars, line, line_len,
                 cmd, ghostVars,
                 lineVars, unitVars>>

\* interpreter_run runs off the end of the program.
RunEnds ==
  /\ proc = "running" /\ pc = "run_stmt"
  /\ ~break_requested
  /\ pc' = RunReturn
  /\ cmd_left' = IF cmd = "RUN" THEN LeftBy(error_occurred, error_message) ELSE cmd_left
  /\ UNCHANGED <<allocVars, proc, apiVars, filename, interpVars, signalVars, editorVars,
                 line, line_len, cmd, out, ghostVars,
                 lineVars, unitVars>>

\* A statement of the running program raises an error: the run halts.
RunError ==
  /\ proc = "running" /\ pc = "run_stmt"
  /\ ~break_requested
  /\ FreeIn(hdr) # {}
  /\ \E r \in StrDuplicateOutcomes(MsgLen) :
       /\ RaiseError(r)
       /\ cmd_left' = IF cmd = "RUN" THEN LeftBy(TRUE, r.ret) ELSE cmd_left
  /\ pc' = RunReturn
  /\ UNCHANGED <<total_memory_limit, apiVars, filename, interp_live, exit_requested,
                 break_requested, signalVars, editorVars, line, line_len, cmd, out,
                 ghostVars,
                 lineVars, unitVars>>

\* main, lines 363-366: interpreter_free and return 0.
Cleanup ==
  /\ proc = "running" /\ pc = "cleanup"
  /\ interp_live' = FALSE
  /\ pc' = "returned"
  /\ proc' = "exit0"
  /\ UNCHANGED <<allocVars, apiVars, filename, exit_requested, break_requested,
                 error_occurred, error_message, error_text, signalVars, editorVars, replVars, ghostVars,
                 lineVars, unitVars>>

\* repl, lines 247-249 with editor_init (part_000 lines 130-136): the screen
\* buffer is allocated and filled with blanks, without a test for NULL.
ReplEditorInit ==
  /\ proc = "running" /\ pc = "repl_editor_init"
  /\ FreeIn(hdr) # {}
  /\ \E r \in AllocOutcomes(ScreenCells) :
       /\ memory_used' = r.used
       /\ hdr' = r.hdr
       /\ ed_buffer' = r.ret
       /\ null_deref' = (null_deref \/ (~r.exit /\ r.ret = NULL))
       /\ proc' = IF r.exit THEN "exit1"
                  ELSE IF r.ret = NULL THEN "crashed"
                  ELSE "running"
  /\ pc' = "repl_register"
  /\ UNCHANGED <<total_memory_limit, apiVars, filename, interpVars, signalVars, raw_mode,
                 replVars, oom_line,
                 lineVars, unitVars>>

\* repl with the registration of line 251 left out.
ReplRegisterForgotten ==
  /\ proc = "running" /\ pc = "repl_register"
  /\ pc' = "repl_signal"
  /\ UNCHANGED <<allocVars, proc, apiVars, filename, interpVars, signalVars,
                 editorVars, replVars, ghostVars,
                 lineVars, unitVars>>

\* repl, line 251: global_interp = interp.
ReplRegister ==
  /\ proc = "running" /\ pc = "repl_register"
  /\ global_interp' = InterpAddr
  /\ pc' = "repl_signal"
  /\ UNCHANGED <<allocVars, proc, apiVars, filename, interpVars, sigint_handler, sig_count,
                 editorVars, replVars, ghostVars,
                 lineVars, unitVars>>

\* repl, line 252: signal(SIGINT, handle_sigint).
ReplInstall ==
  /\ proc = "running" /\ pc = "repl_signal"
  /\ sigint_handler' = "handle_sigint"
  /\ pc' = "repl_banner"
  /\ UNCHANGED <<allocVars, proc, apiVars, filename, interpVars, global_interp, sig_count,
                 editorVars, replVars, ghostVars,
                 lineVars, unitVars>>

\* repl, lines 254-256: raw mode, clear screen, banner.
ReplBanner ==
  /\ proc = "running" /\ pc = "repl_banner"
  /\ raw_mode' = TRUE
  /\ out' = <<"BANNER">>
  /\ pc' = "loop_test"
  /\ UNCHANGED <<allocVars, proc, apiVars, filename, interpVars, signalVars, ed_buffer,
                 line, line_len, cmd, cmd_left, ghostVars,
                 lineVars, unitVars>>

\* repl, line 258: while (!interp->exit_requested).
LoopTest ==
  /\ proc = "running" /\ pc = "loop_test"
  /\ pc' = IF exit_requested THEN "repl_unsignal" ELSE "read"
  /\ UNCHANGED <<allocVars, proc, apiVars, filename, interpVars, signalVars, editorVars,
                 replVars, ghostVars,
                 lineVars, unitVars>>

\* editor_read_line, lines 223-225: get_char returns -1 (end of input, a read
\* error, or a read interrupted by a signal).
ReadNoChar ==
  /\ proc = "running" /\ pc = "read"
  /\ line' = NULL
  /\ line_len' = 0
  /\ oom_line' = FALSE
  /\ out' = <<>>
  /\ cmd_left' = "none"
  /\ typed' = <<>>
  /\ calls' = <<>>
  /\ used_at_read' = memory_used
  /\ pc' = "got_line"
  /\ UNCHANGED <<allocVars, proc, apiVars, filename, interpVars, signalVars, editorVars,
                 cmd, null_deref, tok_double, tok_lost, unitVars>>

\* editor_read_line, lines 228-258, Enter on a row holding len > 0 characters:
\* safe_malloc(len + 1) and memcpy into it, without a test for NULL.
ReadText ==
  /\ proc = "running" /\ pc = "read"
  /\ FreeIn(hdr) # {}
  /\ \E l \in Lines :
       /\ typed' = l
       /\ line_len' = Len(l)
       /\ \E r \in AllocOutcomes(Len(l) + 1) :
            /\ memory_used' = r.used
            /\ hdr' = r.hdr
            /\ line' = r.ret
            /\ null_deref' = (null_deref \/ (~r.exit /\ r.ret = NULL))
            /\ proc' = IF r.exit THEN "exit1"
                       ELSE IF r.ret = NULL THEN "crashed"
                       ELSE "running"
  /\ oom_line' = FALSE
  /\ out' = <<>>
  /\ cmd_left' = "none"
  /\ calls' = <<>>
  /\ used_at_read' = memory_used
  /\ pc' = "got_line"
  /\ UNCHANGED <<total_memory_limit, apiVars, filename, interpVars, signalVars, editorVars,
                 cmd, tok_double, tok_lost, unitVars>>

\* editor_read_line, Enter on a blank row: line = str_duplicate(""), which is
\* NULL when the allocator refuses.
ReadEmpty ==
  /\ proc = "running" /\ pc = "read"
  /\ FreeIn(hdr) # {}
  /\ \E r \in StrDuplicateOutcomes(0) :
       /\ memory_used' = r.used
       /\ hdr' = r.hdr
       /\ line' = r.ret
       /\ oom_line' = (~r.exit /\ r.ret = NULL)
       /\ proc' = IF r.exit THEN "exit1" ELSE "running"
  /\ line_len' = 0
  /\ out' = <<>>
  /\ cmd_left' = "none"
  /\ typed' = <<>>
  /\ calls' = <<>>
  /\ used_at_read' = memory_used
  /\ pc' = "got_line"
  /\ UNCHANGED <<total_memory_limit, apiVars, filename, interpVars, signalVars, editorVars,
                 cmd, null_deref, tok_double, tok_lost, unitVars>>

\* repl, lines 260-267: no line was returned and a break is pending.
GotNullBreak ==
  /\ proc = "running" /\ pc = "got_line"
  /\ line = NULL /\ break_requested
  /\ out' = out \o <<"?BREAK", "READY.">>
  /\ break_requested' = FALSE
  /\ pc' = "loop_test"
  /\ UNCHANGED <<allocVars, proc, apiVars, filename, interp_live, exit_requested,
                 error_occurred, error_message, error_text, signalVars, editorVars, line, line_len,
                 cmd, cmd_left, ghostVars,
                 lineVars, unitVars>>

\* repl, lines 260-267: no line was returned and no break is pending: the
\* loop is left.
GotNullEnd ==
  /\ proc = "running" /\ pc = "got_line"
  /\ line = NULL /\ ~break_requested
  /\ pc' = "repl_unsignal"
  /\ UNCHANGED <<allocVars, proc, apiVars, filename, interpVars, signalVars, editorVars,
                 replVars, ghostVars,
                 lineVars, unitVars>>

\* repl, line 269: a line was returned.
GotLine ==
  /\ proc = "running" /\ pc = "got_line"
  /\ line # NULL
  /\ pc' = IF line_len > 0 THEN "dispatch" ELSE "free_line"
  /\ UNCHANGED <<allocVars, proc, apiVars, filename, interpVars, signalVars, editorVars,
                 replVars, ghostVars,
                 lineVars, unitVars>>

\* repl, lines 271-275: the line starts with a number.
DispatchNumbered ==
  /\ proc = "running" /\ pc = "dispatch"
  /\ LET e == extract_line_number(typed) IN
       /\ e.num >= 0
       /\ calls' = Append(calls, Call("program_add_line", e.num, e.rest))
  /\ pc' = "add_line"
  /\ UNCHANGED <<allocVars, proc, apiVars, filename, interpVars, signalVars, editorVars,
                 replVars, ghostVars, typed, used_at_read, tok_double, tok_lost, unitVars>>

\* repl, lines 276-278: the line is an immediate command.
DispatchImmediate ==
  /\ proc = "running" /\ pc = "dispatch"
  /\ extract_line_number(typed).num < 0
  /\ calls' = Append(calls, Call("execute_immediate_command", 0, typed))
  /\ cmd' = CommandOf(Head(Tokens(typed)))
  /\ pc' = "exec"
  /\ UNCHANGED <<allocVars, proc, apiVars, filename, interpVars, signalVars, editorVars,
                 line, line_len, out, cmd_left, ghostVars, typed, used_at_read,
                 tok_double, tok_lost, unitVars>>

\* program_add_line stores, replaces or deletes the line.
AddLineOk ==
  /\ proc = "running" /\ pc = "add_line"
  /\ pc' = "free_line"
  /\ UNCHANGED <<allocVars, proc, apiVars, filename, interpVars, signalVars, editorVars,
                 replVars, ghostVars,
                 lineVars, unitVars>>

\* program_add_line cannot store the line and raises an error.
AddLineError ==
  /\ proc = "running" /\ pc = "add_line"
  /\ FreeIn(hdr) # {}
  /\ \E r \in StrDuplicateOutcomes(MsgLen) : RaiseError(r)
  /\ pc' = "free_line"
  /\ UNCHANGED <<total_memory_limit, apiVars, filename, interp_live, exit_requested,
                 break_requested, signalVars, editorVars, replVars, ghostVars,
                 lineVars, unitVars>>

\* execute_immediate_command, LIST / NEW / HELP / MEMCHK / CLR (lines 148-172,
\* 179-182, 217-234): output only.
ExecSimple ==
  /\ proc = "running" /\ pc = "exec"
  /\ cmd \in {"LIST", "NEW", "HELP", "MEMCHK", "CLR"}
  /\ FreeIn(hdr) # {}
  /\ TokenEffects(AfterHandler(cmd, BeforeHandler(cmd, memory_used, hdr, Tokens(typed))))
  /\ calls' = Append(calls, Call(HandlerOf(cmd), 0, <<>>))
  /\ out' = IF cmd \in {"LIST", "HELP", "MEMCHK"} THEN Append(out, cmd) ELSE out
  /\ cmd_left' = LeftBy(error_occurred, error_message)
  /\ pc' = "exec_done"
  /\ UNCHANGED <<total_memory_limit, apiVars, filename, interpVars, signalVars, editorVars,
                 line, line_len, cmd, ghostVars, typed, used_at_read, unitVars>>

\* execute_immediate_command, RUN (lines 174-177): interpreter_run.
ExecRun ==
  /\ proc = "running" /\ pc = "exec"
  /\ cmd = "RUN"
  /\ FreeIn(hdr) # {}
  /\ TokenEffects(BeforeHandler(cmd, memory_used, hdr, Tokens(typed)))
  /\ calls' = Append(calls, Call(HandlerOf(cmd), 0, <<>>))
  /\ pc' = "run_stmt"
  /\ UNCHANGED <<total_memory_limit, apiVars, filename, interpVars, signalVars, editorVars,
                 replVars, ghostVars, typed, used_at_read, unitVars>>

\* execute_immediate_command, EXIT (lines 212-215).
ExecExit ==
  /\ proc = "running" /\ pc = "exec"
  /\ cmd = "EXIT"
  /\ FreeIn(hdr) # {}
  /\ LET t == AfterHandler(cmd, BeforeHandler(cmd, memory_used, hdr, Tokens(typed))) IN
       /\ exit_requested' = (exit_requested \/ ~t.exit)
       /\ TokenEffects(t)
  /\ cmd_left' = LeftBy(error_occurred, error_message)
  /\ pc' = "exec_done"
  /\ UNCHANGED <<total_memory_limit, apiVars, filename, interp_live, break_requested,
                 error_occurred, error_message, error_text, signalVars, editorVars, line, line_len,
                 cmd, out, ghostVars, typed, calls, used_at_read, unitVars>>

\* An error is raised while command cmd holds its token in state b
\* (error_occurred = true; error_message = str_duplicate(<message>)), and the
\* case then releases the token.
ErrorInCommand(b) ==
  \E r \in StrDuplicateOutcomesIn(b.used, b.hdr, MsgLen) :
    /\ TokenEffects(AfterHandler(cmd, [b EXCEPT !.used = r.used, !.hdr = r.hdr,
                                                !.exit = b.exit \/ r.exit]))
    /\ error_occurred' = TRUE
    /\ error_message' = r.ret
    /\ error_text' = IF r.ret = NULL THEN ""
                     ELSE IF cmd \in {"LOAD", "SAVE"} /\ b.type # "STRING"
                       THEN "FILENAME REQUIRED"
                     ELSE InterpreterMessage
    /\ cmd_left' = LeftBy(TRUE, r.ret)

\* execute_immediate_command: LOAD / SAVE with a string token, or any other
\* statement (lines 188-189, 202-203, 236-240), completes without error.
ExecOk ==
  /\ proc = "running" /\ pc = "exec"
  /\ cmd \in {"LOAD", "SAVE", "STMT"}
  /\ FreeIn(hdr) # {}
  /\ LET b == BeforeHandler(cmd, memory_used, hdr, Tokens(typed)) IN
       /\ cmd \in {"LOAD", "SAVE"} => b.type = "STRING"
       /\ TokenEffects(AfterHandler(cmd, b))
  /\ calls' = Append(calls, Call(HandlerOf(cmd), 0, IF cmd = "STMT" THEN typed ELSE <<>>))
  /\ cmd_left' = LeftBy(error_occurred, error_message)
  /\ pc' = "exec_done"
  /\ UNCHANGED <<total_memory_limit, apiVars, filename, interpVars, signalVars, editorVars,
                 line, line_len, cmd, out, ghostVars, typed, used_at_read, unitVars>>

\* execute_immediate_command: interpreter_load, interpreter_save (lines 189,
\* 203) or interpreter_execute_line (line 238) raises an error.
ExecError ==
  /\ proc = "running" /\ pc = "exec"
  /\ cmd \in {"LOAD", "SAVE", "STMT"}
  /\ Cardinality(FreeIn(hdr)) >= 2
  /\ LET b == BeforeHandler(cmd, memory_used, hdr, Tokens(typed)) IN
       /\ cmd \in {"LOAD", "SAVE"} => b.type = "STRING"
       /\ ErrorInCommand(b)
  /\ calls' = Append(calls, Call(HandlerOf(cmd), 0, IF cmd = "STMT" THEN typed ELSE <<>>))
  /\ pc' = "exec_done"
  /\ UNCHANGED <<total_memory_limit, apiVars, filename, interp_live, exit_requested,
                 break_requested, signalVars, editorVars, line, line_len, cmd, out,
                 ghostVars, typed, used_at_read, unitVars>>

\* LOAD / SAVE without a string token that raises no error.
ExecFilenameRequiredSilent ==
  /\ proc = "running" /\ pc = "exec"
  /\ cmd \in {"LOAD", "SAVE"}
  /\ Cardinality(FreeIn(hdr)) >= 2
  /\ LET b == BeforeHandler(cmd, memory_used, hdr, Tokens(typed)) IN
       /\ b.type # "STRING"
       /\ TokenEffects(AfterHandler(cmd, b))
  /\ cmd_left' = LeftBy(error_occurred, error_message)
  /\ pc' = "exec_done"
  /\ UNCHANGED <<total_memory_limit, apiVars, filename, interpVars, signalVars, editorVars,
                 line, line_len, cmd, out, ghostVars, typed, calls, used_at_read, unitVars>>

\* execute_immediate_command, LOAD / SAVE without a string token (lines
\* 190-193, 204-207): FILENAME REQUIRED is raised, nothing is called.
ExecFilenameRequired ==
  /\ proc = "running" /\ pc = "exec"
  /\ cmd \in {"LOAD", "SAVE"}
  /\ Cardinality(FreeIn(hdr)) >= 2
  /\ LET b == BeforeHandler(cmd, memory_used, hdr, Tokens(typed)) IN
       /\ b.type # "STRING"
       /\ ErrorInCommand(b)
  /\ pc' = "exec_done"
  /\ UNCHANGED <<total_memory_limit, apiVars, filename, interp_live, exit_requested,
                 break_requested, signalVars, editorVars, line, line_len, cmd, out,
                 ghostVars, typed, calls, used_at_read, unitVars>>

\* What repl prints for a pending error (lines 281-290).
ErrorText(em) ==
  IF em = NULL THEN "?ERROR"
  ELSE IF error_text = "FILENAME REQUIRED" THEN "?FILENAME REQUIRED ERROR"
  ELSE "?MSG ERROR"

\* repl with the test of line 294 left out: READY. is printed after EXIT too.
ReportErrorAlwaysReady ==
  /\ proc = "running" /\ pc = "exec_done"
  /\ LET reported == IF error_occurred THEN Append(out, ErrorText(error_message)) ELSE out
         freed == IF error_occurred
                  THEN SafeFree(memory_used, hdr, error_message)
                  ELSE [used |-> memory_used, hdr |-> hdr]
     IN /\ out' = Append(reported, "READY.")
        /\ memory_used' = freed.used
        /\ hdr' = freed.hdr
  /\ error_message' = IF error_occurred THEN NULL ELSE error_message
  /\ error_text' = IF error_occurred THEN "" ELSE error_text
  /\ error_occurred' = FALSE
  /\ pc' = "free_line"
  /\ UNCHANGED <<total_memory_limit, proc, apiVars, filename, interp_live, exit_requested,
                 break_requested, signalVars, editorVars, line, line_len, cmd, cmd_left,
                 ghostVars,
                 lineVars, unitVars>>

\* repl, lines 280-296: a pending error is printed and cleared, then READY.
\* is printed unless EXIT was requested.
ReportError ==
  /\ proc = "running" /\ pc = "exec_done"
  /\ LET reported == IF error_occurred THEN Append(out, ErrorText(error_message)) ELSE out
         freed == IF error_occurred
                  THEN SafeFree(memory_used, hdr, error_message)
                  ELSE [used |-> memory_used, hdr |-> hdr]
     IN /\ out' = IF ~exit_requested THEN Append(reported, "READY.") ELSE reported
        /\ memory_used' = freed.used
        /\ hdr' = freed.hdr
  /\ error_message' = IF error_occurred THEN NULL ELSE error_message
  /\ error_text' = IF error_occurred THEN "" ELSE error_text
  /\ error_occurred' = FALSE
  /\ pc' = "free_line"
  /\ UNCHANGED <<total_memory_limit, proc, apiVars, filename, interp_live, exit_requested,
                 break_requested, signalVars, editorVars, line, line_len, cmd, cmd_left,
                 ghostVars,
                 lineVars, unitVars>>

\* repl, lines 300-302: safe_free(line); leave the loop when EXIT was requested.
FreeLine ==
  /\ proc = "running" /\ pc = "free_line"
  /\ LET freed == SafeFree(memory_used, hdr, line) IN
       /\ memory_used' = freed.used
       /\ hdr' = freed.hdr
  /\ line' = NULL
  /\ line_len' = 0
  /\ cmd' = "none"
  /\ typed' = <<>>
  /\ pc' = IF exit_requested THEN "repl_unsignal" ELSE "loop_test"
  /\ UNCHANGED <<total_memory_limit, proc, apiVars, filename, interpVars, signalVars,
                 editorVars, out, cmd_left, ghostVars, calls, used_at_read, tok_double,
                 tok_lost, unitVars>>

\* repl, line 305: signal(SIGINT, SIG_DFL).
ReplUninstall ==
  /\ proc = "running" /\ pc = "repl_unsignal"
  /\ sigint_handler' = "SIG_DFL"
  /\ pc' = "repl_unregister"
  /\ UNCHANGED <<allocVars, proc, apiVars, filename, interpVars, global_interp, sig_count,
                 editorVars, replVars, ghostVars,
                 lineVars, unitVars>>

\* repl, line 306: global_interp = NULL.
ReplUnregister ==
  /\ proc = "running" /\ pc = "repl_unregister"
  /\ global_interp' = NULL
  /\ pc' = "repl_restore"
  /\ UNCHANGED <<allocVars, proc, apiVars, filename, interpVars, sigint_handler, sig_count,
                 editorVars, replVars, ghostVars,
                 lineVars, unitVars>>

\* repl, lines 308-309: editor_disable_raw_mode, editor_free.
ReplRestore ==
  /\ proc = "running" /\ pc = "repl_restore"
  /\ raw_mode' = FALSE
  /\ LET freed == SafeFree(memory_used, hdr, ed_buffer) IN
       /\ memory_used' = freed.used
       /\ hdr' = freed.hdr
  /\ ed_buffer' = NULL
  /\ pc' = "cleanup"
  /\ UNCHANGED <<total_memory_limit, proc, apiVars, filename, interpVars, signalVars,
                 replVars, ghostVars,
                 lineVars, unitVars>>

\* handle_sigint (lines 13-18).
HandleSigint ==
  /\ break_requested' = IF global_interp # NULL THEN TRUE ELSE break_requested
  /\ proc' = proc

\* SIGINT is delivered to the process: handle_sigint runs if it is installed,
\* otherwise the default disposition ends the process.
SigInt ==
  /\ proc = "running"
  /\ sig_count < MaxSignals
  /\ sig_count' = sig_count + 1
  /\ IF sigint_handler = "handle_sigint"
     THEN HandleSigint
     ELSE /\ proc' = "killed"
          /\ UNCHANGED break_requested
  /\ UNCHANGED <<allocVars, apiVars, pc, filename, interp_live, exit_requested,
                 error_occurred, error_message, error_text, global_interp, sigint_handler,
                 editorVars, replVars, ghostVars,
                 lineVars, unitVars>>

DriverStep ==
  \/ MainStart \/ InterpreterInit \/ MainLoadOk \/ MainLoadFails
  \/ RunBreak \/ RunEnds \/ RunError \/ Cleanup
  \/ ReplEditorInit \/ ReplRegister \/ ReplInstall \/ ReplBanner \/ LoopTest
  \/ ReadNoChar \/ ReadText \/ ReadEmpty
  \/ GotNullBreak \/ GotNullEnd \/ GotLine
  \/ DispatchNumbered \/ DispatchImmediate \/ AddLineOk \/ AddLineError
  \/ ExecSimple \/ ExecRun \/ ExecExit \/ ExecOk \/ ExecError \/ ExecFilenameRequired
  \/ ReportError \/ FreeLine
  \/ ReplUninstall \/ ReplUnregister \/ ReplRestore

Next == DriverStep \/ SigInt

Spec == InitDriver /\ [][Next]_vars

\* The process keeps executing its code, and the user keeps supplying input.
FairSpec == Spec /\ WF_vars(DriverStep)

(***************************************************************************)
(* Claims about the driver (checked under Spec, C8 under FairSpec).        *)
(***************************************************************************)
RECURSIVE CountIn(_, _)
CountIn(seq, S) ==
  IF seq = <<>> THEN 0
  ELSE (IF Head(seq) \in S THEN 1 ELSE 0) + CountIn(Tail(seq), S)

\* The REPL session is over: the loop has been left or the process has ended.
SessionOver ==
  \/ proc # "running"
  \/ pc \in {"repl_unsignal", "repl_unregister", "repl_restore", "cleanup", "returned"}

\* C5 (as claimed): an allocation refused at the memory ceiling is recoverable
\* at every call site of the driver and the screen editor: the NULL is never
\* written through, the process does not crash and the session does not end
\* because of it.
C5_RefusalIsRecoverable ==
  /\ ~null_deref
  /\ proc # "crashed"
  /\ ~(oom_line /\ SessionOver)

\* C6 (as claimed): when an immediate command leaves error_occurred set, the
\* REPL prints the error exactly once ("?<message> ERROR", or "?ERROR" without
\* a message), clears error_occurred and error_message, prints READY. and goes
\* on to read the next line.
C6_ErrorReportedOnce ==
  (proc = "running" /\ pc = "free_line" /\ cmd_left # "none") =>
    /\ CountIn(out, ErrorLines) = 1
    /\ Len(out) >= 2
    /\ out[Len(out) - 1] \in (IF cmd_left = "msg" THEN ErrorLines \ {"?ERROR"} ELSE {"?ERROR"})
    /\ out[Len(out)] = "READY."
    /\ ~error_occurred
    /\ error_message = NULL
    /\ ~exit_requested

\* C7 (as claimed): whenever the driver is about to read the next input line,
\* or is about to leave main, no error is pending: error_occurred is false and
\* error_message is NULL.
C7_NoErrorPendingAtReadOrExit ==
  (proc = "running" /\ pc \in {"read", "cleanup"}) =>
    (~error_occurred /\ error_message = NULL)

\* C8 (as claimed): a break requested during the REPL session is subsequently
\* reported ("?BREAK") with break_requested reset to false.  (The end of the
\* session is accepted here as well, so that only a session that goes on
\* without ever reporting the break refutes it.)
C8_BreakEventuallyReported ==
  (break_requested /\ ~SessionOver) ~> (~break_requested \/ SessionOver)

\* C9 (as claimed): a SIGINT delivered while a RUN is executing sets
\* break_requested on the running interpreter, and the RUN then stops at the
\* statement boundary and returns with the flag cleared, for the RUN of the
\* REPL and for the RUN main starts for a filename.
C9_SigintDuringRunBreaks ==
  [][ /\ (pc = "run_stmt" /\ sig_count' # sig_count)
         => (break_requested' /\ proc' = "running")
      /\ (pc = "run_stmt" /\ break_requested /\ pc' # pc)
         => (~break_requested' /\ pc' = RunReturn)
    ]_vars

\* C10: a SIGINT handled by handle_sigint changes nothing but break_requested,
\* which it sets on the registered interpreter (and leaves alone when none is
\* registered); no other step ever sets break_requested; and the handler is
\* installed only while global_interp points to the live interpreter.
C10_OnlyHandlerSetsBreak ==
  /\ [](sigint_handler = "handle_sigint" => (global_interp = InterpAddr /\ interp_live))
  /\ [][ /\ (sig_count' # sig_count /\ sigint_handler = "handle_sigint")
            => /\ break_requested' = (IF global_interp # NULL THEN TRUE ELSE break_requested)
               /\ UNCHANGED <<allocVars, proc, apiVars, pc, filename, interp_live,
                              exit_requested, error_occurred, error_message, error_text,
                              global_interp, sigint_handler, editorVars, replVars,
                              ghostVars>>
         /\ (sig_count' = sig_count) => (break_requested' => break_requested)
       ]_vars

\* handle_sigint has run during the session and the break is pending.
C10_Witness ==
  /\ proc = "running"
  /\ sigint_handler = "handle_sigint"
  /\ sig_count > 0
  /\ break_requested
  /\ pc = "exec"

(***************************************************************************)
(* Claims about the dispatch of an input line (checked under Spec).        *)
(***************************************************************************)
RECURSIVE CountCalls(_, _)
CountCalls(cs, fns) ==
  IF cs = <<>> THEN 0
  ELSE (IF Head(cs).fn \in fns THEN 1 ELSE 0) + CountCalls(Tail(cs), fns)

\* The text that follows the digit run at the start of s.
RECURSIVE DropDigits(_)
DropDigits(s) == IF s # <<>> /\ isdigit(Head(s)) THEN DropDigits(Tail(s)) ELSE s

\* The REPL has dealt with the line it read and is about to release it.
LineDone == proc = "running" /\ pc = "free_line" /\ line # NULL

\* C11 (as claimed): a non-empty line whose first non-blank character is a
\* digit is passed to program_add_line, with the text after the number and the
\* blanks that follow it, and nothing else is called or printed; any other
\* non-empty line is passed to execute_immediate_command exactly once and not
\* to program_add_line; an empty line causes no call; and extract_line_number
\* is negative exactly when is_immediate_command is true.
C11_LineDispatch ==
  /\ (LineDone /\ typed # <<>>) =>
        LET s == SkipBlanks(typed) IN
        IF isdigit(Head(s))
        THEN /\ Len(calls) = 1
             /\ calls[1].fn = "program_add_line"
             /\ calls[1].text = SkipBlanks(DropDigits(s))
             /\ out = <<>>
        ELSE /\ CountCalls(calls, {"execute_immediate_command"}) = 1
             /\ CountCalls(calls, {"program_add_line"}) = 0
  /\ (LineDone /\ typed = <<>>) => calls = <<>>
  /\ (proc = "running" /\ pc = "dispatch") =>
        ((extract_line_number(typed).num < 0) = is_immediate_command(typed))

\* C12 (as claimed): the line number handed to program_add_line is at least 1
\* and is the decimal value of the digit string the line starts with.
C12_LineNumberPositiveDecimal ==
  (proc = "running" /\ pc = "add_line") =>
    LET c == calls[Len(calls)] IN
    /\ c.fn = "program_add_line"
    /\ c.num >= 1
    /\ c.num = DecimalValue(SkipBlanks(typed), 0)

\* The function each immediate-only command stands for.
C13_Handler(first) ==
  CASE first = "LIST" -> "interpreter_list"
    [] first = "RUN" -> "interpreter_run"
    [] first = "NEW" -> "interpreter_new"
    [] first = "LOAD" -> "interpreter_load"
    [] first = "SAVE" -> "interpreter_save"
    [] first = "HELP" -> "print_help"
    [] first = "MEMCHK" -> "print_memory_stats"
    [] first = "CLR" -> "editor_clear"
    [] OTHER -> "none"

\* C13: when execute_immediate_command has returned, what it did was decided
\* by the first token alone.  For LIST, RUN, NEW, LOAD, SAVE, EXIT, HELP,
\* MEMCHK, CLR nothing but the corresponding handler was called, at most once
\* (not at all only for EXIT, which sets exit_requested, and for LOAD / SAVE
\* without a filename, which raise an error), and interpreter_execute_line
\* was not called.  For any other first token interpreter_execute_line was
\* called exactly once, with the whole line, and nothing else was.
C13_FirstTokenDecides ==
  (proc = "running" /\ pc = "exec_done") =>
    LET toks == Tokens(typed)
        first == Head(toks)
        hs == Tail(calls)
    IN /\ calls # <<>>
       /\ calls[1] = Call("execute_immediate_command", 0, typed)
       /\ IF first \in {"LIST", "RUN", "NEW", "LOAD", "SAVE", "EXIT", "HELP", "MEMCHK", "CLR"}
          THEN /\ Len(hs) <= 1
               /\ Len(hs) = 1 => hs[1].fn = C13_Handler(first)
               /\ Len(hs) = 0 =>
                     \/ first = "EXIT" /\ exit_requested
                     \/ first \in {"LOAD", "SAVE"} /\ toks[2] # "STRING" /\ cmd_left # "none"
          ELSE hs = <<Call("interpreter_execute_line", 0, typed)>>

\* A line that starts with a number too large for int has been executed as a
\* direct statement.
C13_Witness ==
  /\ proc = "running" /\ pc = "exec_done"
  /\ typed # <<>> /\ isdigit(Head(typed))
  /\ Len(calls) = 2 /\ calls[2].fn = "interpreter_execute_line"

(***************************************************************************)
(* Claims about ownership of tokens, lines and messages (under Spec).      *)
(***************************************************************************)
\* The REPL has finished the iteration for a line it passed to
\* execute_immediate_command, and the line was one of the given commands.
IterationDoneFor(firsts) ==
  /\ proc = "running"
  /\ pc \in {"loop_test", "repl_unsignal"}
  /\ calls # <<>>
  /\ calls[1].fn = "execute_immediate_command"
  /\ Head(Tokens(calls[1].text)) \in firsts

\* C14 (as claimed): every token is released exactly once, no block (input
\* line, error message, token text) stays allocated without an owner, and
\* after an iteration that ran HELP, MEMCHK, CLR, EXIT, or LOAD / SAVE without
\* a filename, memory_used is what it was before the line was read.
C14_ReleasedExactlyOnce ==
  /\ ~tok_double
  /\ ~tok_lost
  /\ proc = "running" => LiveIn(hdr) \subseteq {ed_buffer, line, error_message}
  /\ (\/ IterationDoneFor({"HELP", "MEMCHK", "CLR", "EXIT"})
      \/ IterationDoneFor({"LOAD", "SAVE"}) /\ Len(calls) = 1)
       => memory_used = used_at_read

(***************************************************************************)
(* Claims about end of input and empty lines (under Spec).                 *)
(***************************************************************************)
\* C15 (as claimed): in the REPL an empty line is never taken for the end of
\* input: editor_read_line returns NULL only when no character could be read;
\* an empty line causes no call and the loop goes on to the next read; a NULL
\* with no break pending makes the REPL leave its loop.
C15_EmptyLineIsNotEndOfInput ==
  /\ [](~oom_line)
  /\ []((LineDone /\ line_len = 0) => (calls = <<>> /\ out = <<>> /\ ~exit_requested))
  /\ [][ /\ (proc = "running" /\ pc = "got_line" /\ line # NULL /\ line_len = 0 /\ pc' # pc)
            => pc' = "free_line"
         /\ (LineDone /\ line_len = 0 /\ pc' # pc) => pc' = "loop_test"
         /\ (proc = "running" /\ pc = "got_line" /\ line = NULL /\ ~break_requested
               /\ pc' # pc)
            => pc' = "repl_unsignal"
       ]_vars

(***************************************************************************)
(* The screen editor (editor.c).  Characters are their ASCII codes.  An    *)
(* editor function is an operator on s = [ed, pending, wrote, oob]: the    *)
(* Editor, whether stdout holds bytes no fflush has pushed out yet,        *)
(* whether the call wrote to stdout at all, and whether it touched         *)
(* ed->buffer outside its rows * cols cells.                               *)
(***************************************************************************)
Space == 32
\* The emulated text screen: 1000 cells from address 1024, 25 rows of 40.
ScreenBase == 1024
ScreenSize == 1000
CbmRows == 25
CbmCols == 40

\* Terminal sizes get_window_size reports, as <<rows, cols>>.
GridSizes == {<<1, 1>>, <<2, 3>>, <<3, 2>>}
\* Number of editor calls made on one Editor.
MaxEditorOps == 2
\* Terminal sizes over which the address-to-cell scaling is evaluated.
MaxGridRows == 60
MaxGridCols == 140

BufferSize(e) == e.rows * e.cols
InBuffer(e, i) == i >= 0 /\ i < BufferSize(e)

\* printf / putchar / fwrite leave their bytes in stdout's buffer.
Printed(s) == [s EXCEPT !.pending = TRUE, !.wrote = TRUE]
\* fflush(stdout)
fflush(s) == [s EXCEPT !.pending = FALSE]

term_clear(s) == Printed(s)
term_move_cursor(s) == Printed(s)
term_scroll_up(s) == Printed(s)

\* ed->buffer[i] = ch
StoreCell(s, i, ch) ==
  IF InBuffer(s.ed, i) THEN [s EXCEPT !.ed.buffer[i] = ch]
  ELSE [s EXCEPT !.oob = TRUE]

editor_init(rows, cols, fill) ==
  [rows |-> rows, cols |-> cols, cursor_row |-> 0, cursor_col |-> 0,
   buffer |-> [i \in 0..(rows * cols - 1) |-> fill]]

editor_clear_screen(s) ==
  fflush(term_clear([s EXCEPT !.ed.buffer = [i \in DOMAIN s.ed.buffer |-> Space],
                              !.ed.cursor_row = 0,
                              !.ed.cursor_col = 0]))

editor_scroll(s) ==
  LET e == s.ed
      moved == [i \in DOMAIN e.buffer |->
                  IF i < (e.rows - 1) * e.cols THEN e.buffer[i + e.cols] ELSE Space]
      row == IF e.cursor_row - 1 < 0 THEN 0 ELSE e.cursor_row - 1
  IN term_scroll_up([s EXCEPT !.ed.buffer = moved, !.ed.cursor_row = row])

editor_refresh(s) == fflush(term_move_cursor(Printed(term_move_cursor(s))))

\* One iteration of editor_print's loop, for the character ch.
PrintChar(s, ch) ==
  LET e == s.ed
      a == IF ch = 10 THEN [s EXCEPT !.ed.cursor_col = 0,
                                     !.ed.cursor_row = e.cursor_row + 1]
           ELSE IF ch = 13 THEN [s EXCEPT !.ed.cursor_col = 0]
           ELSE IF ch = 9
             THEN [s EXCEPT !.ed.cursor_col = ((e.cursor_col + 8) \div 8) * 8]
           ELSE LET b == IF e.cursor_row >= e.rows THEN editor_scroll(s) ELSE s
                    c == Printed(term_move_cursor(
                           StoreCell(b, b.ed.cursor_row * b.ed.cols + b.ed.cursor_col, ch)))
                IN [c EXCEPT !.ed.cursor_col = b.ed.cursor_col + 1]
      w == IF a.ed.cursor_col >= a.ed.cols
           THEN [a EXCEPT !.ed.cursor_col = 0, !.ed.cursor_row = a.ed.cursor_row + 1]
           ELSE a
  IN IF w.ed.cursor_row >= w.ed.rows THEN editor_scroll(w) ELSE w

RECURSIVE PrintChars(_, _)
PrintChars(s, str) ==
  IF str = <<>> THEN s ELSE PrintChars(PrintChar(s, Head(str)), Tail(str))

editor_print(s, str) == fflush(term_move_cursor(PrintChars(s, str)))

\* The mutant of editor_plot that clamps the coordinates into the grid.
editor_plot_clamped(s, x, y, c) ==
  LET e == s.ed
      cx == IF x < 0 THEN 0 ELSE IF x >= e.cols THEN e.cols - 1 ELSE x
      cy == IF y < 0 THEN 0 ELSE IF y >= e.rows THEN e.rows - 1 ELSE y
  IN fflush(Printed(term_move_cursor(StoreCell(s, cy * e.cols + cx, c))))

editor_plot(s, x, y, c) ==
  IF x < 0 \/ x >= s.ed.cols \/ y < 0 \/ y >= s.ed.rows THEN s
  ELSE fflush(Printed(term_move_cursor(StoreCell(s, y * s.ed.cols + x, c))))

editor_set_background_color(s, color) == fflush(Printed(s))

\* editor_poke_char's conversion of a screen code to the character drawn.
CbmToAscii(val) ==
  IF val >= 1 /\ val <= 26 THEN val + 64
  ELSE IF val >= 27 /\ val <= 31 THEN val + 64
  ELSE IF val >= 32 /\ val <= 63 THEN val
  ELSE IF val >= 64 /\ val <= 95 THEN val + 32
  ELSE IF val >= 96 /\ val <= 127 THEN val
  ELSE 63

\* The mutant of PokeRow that rounds the scaled row up.
PokeRowRoundedUp(offset, rows) ==
  ((offset \div CbmCols) * rows + CbmRows - 1) \div CbmRows

\* editor_poke_char's scaling of the emulated row and column of offset to
\* the terminal grid.
PokeRow(offset, rows) == ((offset \div CbmCols) * rows) \div CbmRows
PokeCol(offset, cols) == ((offset % CbmCols) * cols) \div CbmCols

editor_poke_char(s, addr, val) ==
  LET offset == addr - ScreenBase IN
  IF offset < 0 \/ offset >= ScreenSize THEN s
  ELSE editor_plot(s, PokeCol(offset, s.ed.cols), PokeRow(offset, s.ed.rows),
                   CbmToAscii(val))

editor_move_cursor(s, row, col) ==
  LET e == s.ed
      r == IF row < 0 THEN 0 ELSE IF row >= e.rows THEN e.rows - 1 ELSE row
      c == IF col < 0 THEN 0 ELSE IF col >= e.cols THEN e.cols - 1 ELSE col
  IN term_move_cursor([s EXCEPT !.ed.cursor_row = r, !.ed.cursor_col = c])

editor_move_cursor_relative(s, drow, dcol) ==
  editor_move_cursor(s, s.ed.cursor_row + drow, s.ed.cursor_col + dcol)

\* editor_read_line's trimming of the picked row: the first and the last
\* index of start..end that hold something other than a space.
RECURSIVE TrimStart(_, _, _)
TrimStart(e, start, end) ==
  IF start <= end /\ e.buffer[start] = Space THEN TrimStart(e, start + 1, end)
  ELSE start
RECURSIVE TrimEnd(_, _, _)
TrimEnd(e, start, end) ==
  IF end >= start /\ e.buffer[end] = Space THEN TrimEnd(e, start, end - 1)
  ELSE end

\* The input one iteration of editor_read_line's loop consumes: the bytes
\* read() delivers, <<>> when the first read() fails.
EscUp == <<27, 91, 65>>
EscDown == <<27, 91, 66>>
EscRight == <<27, 91, 67>>
EscLeft == <<27, 91, 68>>
Keys == {<<>>, <<65>>, <<13>>, <<127>>, <<1>>, <<27>>,
         EscUp, EscDown, EscRight, EscLeft}

\* One iteration of editor_read_line's loop after get_char: the state, what
\* the function returns ("none" while the loop goes on) and the line picked.
ReadLineKey(s, key) ==
  LET e == s.ed
      c == IF key = <<>> THEN -1 ELSE Head(key)
      Go(t) == [s |-> fflush(t), ret |-> "none", line |-> <<>>]
  IN
  IF c = -1 THEN [s |-> s, ret |-> "NULL", line |-> <<>>]
  ELSE IF c = 13 \/ c = 10 THEN
    LET start == e.cursor_row * e.cols
        end == start + e.cols - 1
    IN IF ~InBuffer(e, start)
       THEN [s |-> [s EXCEPT !.oob = TRUE], ret |-> "line", line |-> <<>>]
       ELSE LET from == TrimStart(e, start, end)
                to == TrimEnd(e, from, end)
                down == [s EXCEPT !.ed.cursor_row = e.cursor_row + 1,
                                  !.ed.cursor_col = 0]
                scrolled == IF down.ed.cursor_row >= e.rows
                            THEN editor_scroll(down) ELSE down
            IN [s |-> fflush(term_move_cursor(scrolled)),
                ret |-> "line",
                line |-> [i \in 1..(to - from + 1) |-> e.buffer[from + i - 1]]]
  ELSE IF c = 127 \/ c = 8 THEN
    IF e.cursor_col > 0
    THEN Go(Printed(StoreCell([s EXCEPT !.ed.cursor_col = e.cursor_col - 1],
                              e.cursor_row * e.cols + e.cursor_col - 1, Space)))
    ELSE Go(s)
  ELSE IF c = 27 THEN
    IF Len(key) < 3 THEN [s |-> s, ret |-> "none", line |-> <<>>]
    ELSE LET moved ==
               IF key[2] # 91 THEN s
               ELSE IF key[3] = 65 /\ e.cursor_row > 0
                 THEN [s EXCEPT !.ed.cursor_row = e.cursor_row - 1]
               ELSE IF key[3] = 66 /\ e.cursor_row < e.rows - 1
                 THEN [s EXCEPT !.ed.cursor_row = e.cursor_row + 1]
               ELSE IF key[3] = 67 /\ e.cursor_col < e.cols - 1
                 THEN [s EXCEPT !.ed.cursor_col = e.cursor_col + 1]
               ELSE IF key[3] = 68 /\ e.cursor_col > 0
                 THEN [s EXCEPT !.ed.cursor_col = e.cursor_col - 1]
               ELSE s
         IN Go(term_move_cursor(moved))
  ELSE IF c < 32 THEN Go(s)
  ELSE
    LET b == IF e.cursor_row >= e.rows THEN editor_scroll(s) ELSE s
        p == Printed(StoreCell(b, b.ed.cursor_row * b.ed.cols + b.ed.cursor_col, c))
        r == [p EXCEPT !.ed.cursor_col = b.ed.cursor_col + 1]
    IN Go(IF r.ed.cursor_col >= r.ed.cols
          THEN [r EXCEPT !.ed.cursor_col = 0, !.ed.cursor_row = r.ed.cursor_row + 1]
          ELSE r)

(***************************************************************************)
(* SpecEditor: one Editor under arbitrary sequences of calls, as the       *)
(* interpreter's statements and the REPL make them.                        *)
(***************************************************************************)
\* Arguments tried by the callers.
PrintStrings == {<<65>>, <<10>>, <<65, 66, 10>>, <<9, 65>>}
PlotChar == 65
PlotXs(e) == {-1, 0, e.cols - 1, e.cols}
PlotYs(e) == {-1, 0, e.rows - 1, e.rows}
PokeAddrs == {ScreenBase - 1, ScreenBase, ScreenBase + CbmCols - 1,
              ScreenBase + CbmCols, ScreenBase + ScreenSize - 1,
              ScreenBase + ScreenSize}
PokeVals == {0, 1, 32, 95, 255}
MoveTargets(e) == {<<-1, -1>>, <<0, e.cols - 1>>, <<e.rows - 1, 0>>, <<e.rows, e.cols>>}
MoveDeltas == {<<-1, -1>>, <<1, 1>>}

AllocIdle ==
  /\ total_memory_limit = DefaultLimit
  /\ memory_used = 0
  /\ hdr = [h \in DriverHandles |-> NoBlock]
  /\ proc = "running"
  /\ last = NoCall
  /\ misuse = 0

InitEditor ==
  /\ \E g \in GridSizes, fill \in {Space, PlotChar + 1} :
       ed = editor_init(g[1], g[2], fill)
  /\ stdout_pending = FALSE
  /\ ed_last = NoEditorCall
  /\ ed_ops = 0
  /\ read_unflushed = FALSE
  /\ ed_oob = FALSE
  /\ MainIdle
  /\ AllocIdle
  /\ DriverUnused

EditorCall == [ed |-> ed, pending |-> stdout_pending, wrote |-> FALSE, oob |-> FALSE]

\* The call op(x, y, c) took the editor to r; reads tells whether it asked
\* for an input character first.
EditorDone(op, x, y, c, r, reads, ret, text) ==
  /\ ed' = r.ed
  /\ stdout_pending' = r.pending
  /\ ed_oob' = r.oob
  /\ ed_last' = [op |-> op, x |-> x, y |-> y, c |-> c, before |-> ed,
                 pending_before |-> stdout_pending, wrote |-> r.wrote,
                 ret |-> ret, line |-> text]
  /\ ed_ops' = ed_ops + 1
  /\ read_unflushed' = (read_unflushed \/ (reads /\ stdout_pending))
  /\ UNCHANGED <<allocVars, proc, apiVars, driverVars, mainVars>>

EditorReady == ed_ops < MaxEditorOps /\ ~ed_oob

EditorPrint ==
  /\ EditorReady
  /\ \E str \in PrintStrings :
       EditorDone("editor_print", 0, 0, 0, editor_print(EditorCall, str), FALSE, "none", str)

EditorPlot ==
  /\ EditorReady
  /\ \E x \in PlotXs(ed), y \in PlotYs(ed) :
       EditorDone("editor_plot", x, y, PlotChar,
                  editor_plot(EditorCall, x, y, PlotChar), FALSE, "none", <<>>)

EditorPokeChar ==
  /\ EditorReady
  /\ \E addr \in PokeAddrs, val \in PokeVals :
       EditorDone("editor_poke_char", addr, val, CbmToAscii(val),
                  editor_poke_char(EditorCall, addr, val), FALSE, "none", <<>>)

EditorScroll ==
  /\ EditorReady
  /\ EditorDone("editor_scroll", 0, 0, 0, editor_scroll(EditorCall), FALSE, "none", <<>>)

EditorClearScreen ==
  /\ EditorReady
  /\ EditorDone("editor_clear_screen", 0, 0, 0, editor_clear_screen(EditorCall),
                FALSE, "none", <<>>)

EditorRefresh ==
  /\ EditorReady
  /\ EditorDone("editor_refresh", 0, 0, 0, editor_refresh(EditorCall), FALSE, "none", <<>>)

EditorSetBackgroundColor ==
  /\ EditorReady
  /\ EditorDone("editor_set_background_color", 6, 0, 0,
                editor_set_background_color(EditorCall, 6), FALSE, "none", <<>>)

EditorMoveCursor ==
  /\ EditorReady
  /\ \E t \in MoveTargets(ed) :
       EditorDone("editor_move_cursor", t[2], t[1], 0,
                  editor_move_cursor(EditorCall, t[1], t[2]), FALSE, "none", <<>>)

EditorMoveCursorRelative ==
  /\ EditorReady
  /\ \E d \in MoveDeltas :
       EditorDone("editor_move_cursor_relative", d[2], d[1], 0,
                  editor_move_cursor_relative(EditorCall, d[1], d[2]), FALSE, "none", <<>>)

\* editor_read_line: get_char, then the handling of the key it returned.
EditorReadLineKey ==
  /\ EditorReady
  /\ \E key \in Keys :
       LET r == ReadLineKey(EditorCall, key) IN
       EditorDone("editor_read_line", 0, 0, IF key = <<>> THEN -1 ELSE Head(key),
                  r.s, TRUE, r.ret, r.line)

NextEditor ==
  \/ EditorPrint
  \/ EditorPlot
  \/ EditorPokeChar
  \/ EditorScroll
  \/ EditorClearScreen
  \/ EditorRefresh
  \/ EditorSetBackgroundColor
  \/ EditorMoveCursor
  \/ EditorMoveCursorRelative
  \/ EditorReadLineKey

SpecEditor == InitEditor /\ [][NextEditor]_vars

(***************************************************************************)
(* Properties of the screen editor, checked under SpecEditor.              *)
(***************************************************************************)
\* C16: flush-before-read.  Whenever an input character is requested
\* (get_char in editor_read_line), no output written earlier by an editor
\* operation is still unflushed.
C16_FlushBeforeRead == ~read_unflushed

PlotInRange(b, x, y) == x >= 0 /\ x < b.cols /\ y >= 0 /\ y < b.rows

\* C17: editor_plot(x, y, c) with x outside [0, cols) or y outside [0, rows)
\* changes nothing (no buffer cell, no cursor field, no output); with
\* in-range coordinates it changes exactly the cell (x, y) to c and leaves
\* every other cell and cursor_row / cursor_col unchanged.
C17_PlotFrame ==
  ed_last.op = "editor_plot" =>
    LET b == ed_last.before
        x == ed_last.x
        y == ed_last.y
    IN IF PlotInRange(b, x, y)
       THEN /\ ~ed_oob
            /\ DOMAIN ed.buffer = DOMAIN b.buffer
            /\ ed.buffer[y * b.cols + x] = ed_last.c
            /\ \A i \in DOMAIN b.buffer : i # y * b.cols + x => ed.buffer[i] = b.buffer[i]
            /\ ed.cursor_row = b.cursor_row
            /\ ed.cursor_col = b.cursor_col
            /\ ed.rows = b.rows /\ ed.cols = b.cols
       ELSE /\ ed = b
            /\ ~ed_last.wrote
            /\ stdout_pending = ed_last.pending_before
            /\ ~ed_oob

\* An in-range plot changed its cell while the cursor was in another row or
\* column.
C17_Witness ==
  /\ ed_last.op = "editor_plot"
  /\ PlotInRange(ed_last.before, ed_last.x, ed_last.y)
  /\ ed.buffer # ed_last.before.buffer
  /\ (ed.cursor_row # ed_last.y \/ ed.cursor_col # ed_last.x)

PokeInRange(addr) == addr >= ScreenBase /\ addr < ScreenBase + ScreenSize

\* C18: editor_poke_char(addr, val) with addr outside 1024..2023 changes no
\* screen state; for every addr inside that range, every val and every grid
\* of rows >= 1 by cols >= 1 it writes exactly one cell, whose row and column
\* lie inside the grid.
C18_PokeChar ==
  /\ ed_last.op = "editor_poke_char" =>
       LET b == ed_last.before IN
       IF PokeInRange(ed_last.x)
       THEN /\ ed_last.wrote
            /\ ~ed_oob
            /\ \E r \in 0..(b.rows - 1), c \in 0..(b.cols - 1) :
                 ed = [b EXCEPT !.buffer[r * b.cols + c] = CbmToAscii(ed_last.y)]
       ELSE /\ ed = b
            /\ ~ed_last.wrote
            /\ stdout_pending = ed_last.pending_before
            /\ ~ed_oob
  /\ ed_ops = 0 =>
       \A offset \in 0..(ScreenSize - 1) :
         /\ \A rows \in 1..MaxGridRows : PokeRow(offset, rows) \in 0..(rows - 1)
         /\ \A cols \in 1..MaxGridCols : PokeCol(offset, cols) \in 0..(cols - 1)

\* A poke of the last screen address drew its character in the last row of
\* a grid of more than one row.
C18_Witness ==
  /\ ed_last.op = "editor_poke_char"
  /\ ed_last.x = ScreenBase + ScreenSize - 1
  /\ ed.rows > 1
  /\ ed.buffer # ed_last.before.buffer
  /\ ed.buffer[BufferSize(ed) - 1] = CbmToAscii(ed_last.y)

(***************************************************************************)
(* The command line (cfbasic.c: main, lines 312-344; utils.c:              *)
(* parse_memory_size).  Strings are sequences of characters.  Byte counts  *)
(* are size_t values modulo SizeMod, and the build's 1024 is Kilo.         *)
(***************************************************************************)
Kilo == 4
\* Number of arguments after the program name.
MaxArgs == 2

OptM == <<"-", "M">>
OptMEM == <<"-", "-", "M", "E", "M">>
OptH == <<"-", "h">>
OptHelp == <<"-", "-", "h", "e", "l", "p">>
OptV == <<"-", "v">>
OptVersion == <<"-", "-", "v", "e", "r", "s", "i", "o", "n">>
\* Size arguments: plain, with each suffix in either case, too large for
\* size_t, zero, negative, not a number, a wrong suffix, and a right suffix
\* followed by more characters.
SizeArgs == {<<"5">>, <<"5", "K">>, <<"5", "k">>, <<"1", "M">>, <<"1", "m">>,
             <<"1", "G">>, <<"1", "g">>, <<"5", "G">>, <<"0">>, <<"-", "5">>,
             <<"K">>, <<"5", "Q">>, <<"5", "K", "B">>, <<"1", "M", "B">>}
\* Other arguments: a file name, the empty string, and options main does
\* not know.
OtherArgs == {<<"a">>, <<>>, <<"-", "m">>, <<"-">>}
Args == {OptM, OptMEM, OptH, OptHelp, OptV, OptVersion} \cup SizeArgs \cup OtherArgs
ArgVectors == UNION {[1..n -> Args] : n \in 0..MaxArgs}

\* toupper, on the suffix letters.
toupper(ch) == IF ch = "k" THEN "K" ELSE IF ch = "m" THEN "M" ELSE IF ch = "g" THEN "G" ELSE ch

\* strtod on an optionally signed run of decimal digits: the value and the
\* unparsed rest (endptr); value 0 and the whole string when no digit is
\* found.
strtod(str) ==
  LET neg == str # <<>> /\ Head(str) = "-"
      body == IF str # <<>> /\ Head(str) \in {"-", "+"} THEN Tail(str) ELSE str
      rest == DropDigits(body)
      digits == SubSeq(body, 1, Len(body) - Len(rest))
  IN IF digits = <<>> THEN [value |-> 0, rest |-> str]
     ELSE [value |-> IF neg THEN 0 - DecimalValue(digits, 0) ELSE DecimalValue(digits, 0),
           rest |-> rest]

\* The values parse_memory_size(str) can return: one value, or any size_t
\* when value * multiplier is outside size_t's range (the conversion of an
\* out-of-range double is undefined).
parse_memory_size(str) ==
  LET p == strtod(str)
      suffix == IF p.rest = <<>> THEN "" ELSE toupper(Head(p.rest))
      multiplier == IF suffix = "" THEN 1
                    ELSE IF suffix = "K" THEN Kilo
                    ELSE IF suffix = "M" THEN Kilo * Kilo
                    ELSE IF suffix = "G" THEN Kilo * Kilo * Kilo
                    ELSE 0
  IN IF p.value <= 0 THEN {0}
     ELSE IF multiplier = 0 THEN {0}
     ELSE IF p.value * multiplier >= SizeMod THEN 0..(SizeMod - 1)
     ELSE {p.value * multiplier}

\* main's default memory limit (64 KB).
MainDefaultLimit == SizeMod - 1

MainStarted ==
  [status |-> "parsing", i |-> 1, memory_limit |-> MainDefaultLimit,
   has_file |-> FALSE, filename |-> <<>>, exit_code |-> 0, usage |-> FALSE,
   arg |-> <<>>, size |-> "none", size_str |-> <<>>, parsed |-> 0, steps |-> <<>>]

InitMain ==
  /\ argv \in ArgVectors
  /\ main_result = MainStarted
  /\ EditorIdle
  /\ AllocIdle
  /\ DriverUnused

MainUnchanged == UNCHANGED <<allocVars, proc, apiVars, driverVars, screenVars, argv>>

\* main is at argv[i] of its loop.
MainAt(i) == main_result.status = "parsing" /\ i = main_result.i /\ i <= Len(argv)

Exits(code, usage, a) ==
  [main_result EXCEPT !.status = "exited", !.exit_code = code, !.usage = usage, !.arg = a]

\* argv[i][0] == '-'
StartsWithDash(a) == a # <<>> /\ Head(a) = "-"

\* -M / --MEM with a following argument (lines 318-324)
MainMemOption ==
  \E i \in 1..Len(argv) :
    /\ MainAt(i)
    /\ argv[i] \in {OptM, OptMEM}
    /\ i + 1 <= Len(argv)
    /\ \E v \in parse_memory_size(argv[i + 1]) :
         LET seen == [main_result EXCEPT !.arg = argv[i], !.size = "parsed",
                                         !.size_str = argv[i + 1], !.parsed = v,
                                         !.memory_limit = v]
         IN main_result' = IF v = 0
                           THEN [seen EXCEPT !.status = "exited", !.exit_code = 1]
                           ELSE [seen EXCEPT !.i = i + 2]
    /\ MainUnchanged

\* -M / --MEM as the last argument (lines 325-329)
MainMemMissing ==
  \E i \in 1..Len(argv) :
    /\ MainAt(i)
    /\ argv[i] \in {OptM, OptMEM}
    /\ ~(i + 1 <= Len(argv))
    /\ main_result' = [Exits(1, TRUE, argv[i]) EXCEPT !.size = "missing"]
    /\ MainUnchanged

\* -h / --help (lines 330-332)
MainHelp ==
  \E i \in 1..Len(argv) :
    /\ MainAt(i)
    /\ argv[i] \in {OptH, OptHelp}
    /\ main_result' = Exits(0, TRUE, argv[i])
    /\ MainUnchanged

\* -v / --version (lines 333-336)
MainVersion ==
  \E i \in 1..Len(argv) :
    /\ MainAt(i)
    /\ argv[i] \in {OptV, OptVersion}
    /\ main_result' = Exits(0, FALSE, argv[i])
    /\ MainUnchanged

\* an argument that does not start with '-' (lines 337-338)
MainFilename ==
  \E i \in 1..Len(argv) :
    /\ MainAt(i)
    /\ argv[i] \notin {OptM, OptMEM, OptH, OptHelp, OptV, OptVersion}
    /\ ~StartsWithDash(argv[i])
    /\ main_result' = [main_result EXCEPT !.i = i + 1, !.has_file = TRUE,
                                          !.filename = argv[i], !.arg = argv[i]]
    /\ MainUnchanged

\* any other argument (lines 339-343)
MainUnknownOption ==
  \E i \in 1..Len(argv) :
    /\ MainAt(i)
    /\ argv[i] \notin {OptM, OptMEM, OptH, OptHelp, OptV, OptVersion}
    /\ StartsWithDash(argv[i])
    /\ main_result' = Exits(1, TRUE, argv[i])
    /\ MainUnchanged

\* init_memory and interpreter_init (lines 347-351)
MainInit ==
  /\ main_result.status = "parsing" /\ main_result.i > Len(argv)
  /\ total_memory_limit' = InitMemory(main_result.memory_limit).limit
  /\ memory_used' = InitMemory(main_result.memory_limit).used
  /\ main_result' = [main_result EXCEPT !.status = "started",
                                        !.steps = <<"init_memory", "interpreter_init">>]
  /\ UNCHANGED <<hdr, proc, apiVars, driverVars, screenVars, argv>>

\* interpreter_load, and interpreter_run when it succeeded (lines 354-357)
MainLoadAndRun ==
  /\ main_result.status = "started" /\ main_result.has_file
  /\ \E loaded \in BOOLEAN :
       main_result' = [main_result EXCEPT
                         !.status = "ending",
                         !.steps = @ \o (IF loaded
                                         THEN <<"interpreter_load", "interpreter_run">>
                                         ELSE <<"interpreter_load">>)]
  /\ MainUnchanged

\* repl (lines 358-361)
MainRepl ==
  /\ main_result.status = "started" /\ ~main_result.has_file
  /\ main_result' = [main_result EXCEPT !.status = "ending", !.steps = Append(@, "repl")]
  /\ MainUnchanged

\* interpreter_free and return 0 (lines 364-366)
MainReturn ==
  /\ main_result.status = "ending"
  /\ main_result' = [main_result EXCEPT !.status = "exited", !.exit_code = 0,
                                        !.steps = Append(@, "interpreter_free")]
  /\ MainUnchanged

NextMain ==
  \/ MainMemOption
  \/ MainMemMissing
  \/ MainHelp
  \/ MainVersion
  \/ MainFilename
  \/ MainUnknownOption
  \/ MainInit
  \/ MainLoadAndRun
  \/ MainRepl
  \/ MainReturn

SpecMain == InitMain /\ [][NextMain]_vars

(***************************************************************************)
(* Properties of the command line, checked under SpecMain.                 *)
(***************************************************************************)
\* A memory size as the usage text describes it: a positive decimal integer,
\* optionally followed by one of K, M, G in either case.
SizeSuffixes == {<<>>, <<"K">>, <<"k">>, <<"M">>, <<"m">>, <<"G">>, <<"g">>}
SizeDigits(str) == SubSeq(str, 1, Len(str) - Len(DropDigits(str)))
ValidSize(str) ==
  /\ SizeDigits(str) # <<>>
  /\ DecimalValue(SizeDigits(str), 0) > 0
  /\ DropDigits(str) \in SizeSuffixes
\* The number of bytes a valid size names.
SizeBytes(str) ==
  LET n == DecimalValue(SizeDigits(str), 0)
      suffix == DropDigits(str)
  IN IF suffix = <<>> THEN n
     ELSE IF suffix \in {<<"K">>, <<"k">>} THEN n * Kilo
     ELSE IF suffix \in {<<"M">>, <<"m">>} THEN n * Kilo * Kilo
     ELSE n * Kilo * Kilo * Kilo

MainExited == main_result.status = "exited"
KnownOptions == {OptM, OptMEM, OptH, OptHelp, OptV, OptVersion}
\* The argument main examined last made it return.
ReturnedAt(args) == MainExited /\ main_result.steps = <<>> /\ main_result.arg \in args

\* C19: command-line handling.  An invalid or missing memory size exits
\* nonzero before any interpreter initialisation; an unknown option prints
\* usage and exits nonzero; -h / --help and -v / --version exit 0; a file
\* name causes load, then RUN only if the load succeeded, without the REPL;
\* with no file name the REPL is entered.  Each clause is about the
\* argument main is examining.
C19_CommandLine ==
  /\ (main_result.arg \in {OptM, OptMEM}
      /\ (main_result.size = "missing" \/ ~ValidSize(main_result.size_str)))
       => (MainExited /\ main_result.exit_code # 0 /\ main_result.steps = <<>>)
  /\ (main_result.status # "parsing" /\ main_result.arg # <<>>
      /\ Head(main_result.arg) = "-" /\ main_result.arg \notin KnownOptions
      /\ main_result.steps = <<>>)
       => (MainExited /\ main_result.usage /\ main_result.exit_code # 0)
  /\ (main_result.status # "parsing"
      /\ main_result.arg \in {OptH, OptHelp, OptV, OptVersion})
       => (MainExited /\ main_result.exit_code = 0 /\ main_result.steps = <<>>)
  /\ (MainExited /\ main_result.steps # <<>>) =>
       IF main_result.has_file
       THEN main_result.steps \in
              {<<"init_memory", "interpreter_init", "interpreter_load",
                 "interpreter_run", "interpreter_free">>,
               <<"init_memory", "interpreter_init", "interpreter_load",
                 "interpreter_free">>}
       ELSE main_result.steps =
              <<"init_memory", "interpreter_init", "repl", "interpreter_free">>

\* C20: parse_memory_size.  For a positive integer n optionally followed by
\* K, M or G (either case) the result is n, n * 1024, n * 1024^2 or
\* n * 1024^3; for a non-positive or non-numeric value or any other suffix
\* it is 0, which main treats as invalid; a valid size never yields a limit
\* of 0, and the limit passed to init_memory is the parsed value.
C20_ParseMemorySize ==
  main_result.size = "parsed" =>
    /\ ValidSize(main_result.size_str) =>
         /\ main_result.parsed = SizeBytes(main_result.size_str)
         /\ main_result.parsed # 0
    /\ ~ValidSize(main_result.size_str) => main_result.parsed = 0
    /\ main_result.parsed = 0 => (MainExited /\ main_result.exit_code # 0)
    /\ (main_result.steps # <<>> /\ main_result.arg \in {OptM, OptMEM})
         => total_memory_limit = main_result.parsed

(***************************************************************************)
(* Screen-buffer bounds, checked under SpecEditor.                         *)
(***************************************************************************)
CursorInGrid(e) ==
  /\ e.cursor_row >= 0 /\ e.cursor_row < e.rows
  /\ e.cursor_col >= 0 /\ e.cursor_col < e.cols

\* C21: screen-buffer bounds.  After editor_init, whatever keys
\* editor_read_line processes and whatever editor_print, editor_scroll,
\* editor_plot and editor_move_cursor calls are made in between, every index
\* at which ed->buffer is read or written lies in [0, rows * cols); the
\* cursor is inside the grid whenever Enter picks the current row.
C21_BufferBounds ==
  /\ ~ed_oob
  /\ (ed_last.op = "editor_read_line" /\ ed_last.ret = "line")
       => CursorInGrid(ed_last.before)

(***************************************************************************)
(* The end of the REPL session (checked under FairSpec and Spec).          *)
(***************************************************************************)
\* repl has reached its return with everything it set up undone.
ReplReturned ==
  /\ pc \in {"cleanup", "returned"}
  /\ line = NULL
  /\ sigint_handler = "SIG_DFL"
  /\ global_interp = NULL
  /\ ~raw_mode

\* C22: once EXIT has set exit_requested, the REPL reads no further line,
\* executes no further command and prints no READY.; it frees the current
\* line, restores the default SIGINT disposition, clears global_interp,
\* disables raw mode and returns; exit_requested is never reset.  (A SIGINT
\* that arrives once the default disposition is back ends the process; that
\* end is accepted in place of the return.)
C22_ExitLeavesRepl ==
  /\ []((exit_requested /\ proc = "running") =>
          pc \in {"exec_done", "free_line", "repl_unsignal", "repl_unregister",
                  "repl_restore", "cleanup", "returned"})
  /\ []((exit_requested /\ pc \in {"cleanup", "returned"}) => ReplReturned)
  /\ [][exit_requested =>
          /\ exit_requested'
          /\ calls' = calls
          /\ CountIn(out', {"READY."}) = CountIn(out, {"READY."})]_vars
  /\ (exit_requested /\ proc = "running") ~> (ReplReturned \/ proc = "killed")

\* EXIT was given and repl returned to main, which ended the process.
C22_Witness ==
  /\ exit_requested
  /\ proc = "exit0"
  /\ ReplReturned
  /\ CountCalls(calls, {"execute_immediate_command"}) = 1

\* C24: terminal restoration.  On every path by which the process leaves the
\* REPL after editor_enable_raw_mode was called (EXIT, end of input, or
\* termination from inside the allocator), raw mode has been disabled and
\* the SIGINT handler reset before the process ends.
C24_TerminalRestored ==
  proc \in {"exit0", "exit1"} => (~raw_mode /\ sigint_handler = "SIG_DFL")

(***************************************************************************)
(* LOAD and SAVE without a file name (checked under Spec).                 *)
(***************************************************************************)
\* The line being handled is LOAD or SAVE and the token after it is not a
\* string literal.
FilenameMissing ==
  /\ typed # <<>>
  /\ cmd \in {"LOAD", "SAVE"}
  /\ Tokens(typed)[2] # "STRING"
NoLoadOrSave == CountCalls(calls, {"interpreter_load", "interpreter_save"}) = 0

\* C23 (as claimed): LOAD or SAVE whose next token is not a string literal
\* performs no load or save, sets error_occurred with the message
\* "FILENAME REQUIRED", and the REPL then prints "?FILENAME REQUIRED ERROR"
\* followed by READY.
C23_FilenameRequiredAsClaimed ==
  /\ (proc = "running" /\ pc = "exec_done" /\ FilenameMissing)
       => /\ NoLoadOrSave
          /\ error_occurred
          /\ error_message # NULL
          /\ error_text = "FILENAME REQUIRED"
  /\ (LineDone /\ FilenameMissing)
       => /\ NoLoadOrSave
          /\ out = <<"?FILENAME REQUIRED ERROR", "READY.">>

\* C23 (amended): LOAD or SAVE whose next token is not a string literal
\* performs no load or save and sets error_occurred; the message is
\* "FILENAME REQUIRED", and the REPL prints "?FILENAME REQUIRED ERROR" then
\* READY., unless str_duplicate could not allocate the message: then
\* error_message is NULL and the REPL prints "?ERROR" then READY.
C23_FilenameRequired ==
  /\ (proc = "running" /\ pc = "exec_done" /\ FilenameMissing)
       => /\ NoLoadOrSave
          /\ error_occurred
          /\ error_text = (IF error_message # NULL THEN "FILENAME REQUIRED" ELSE "")
          /\ cmd_left = (IF error_message # NULL THEN "msg" ELSE "nomsg")
  /\ (LineDone /\ FilenameMissing)
       => /\ NoLoadOrSave
          /\ ~error_occurred /\ error_message = NULL
          /\ out = (IF cmd_left = "msg"
                    THEN <<"?FILENAME REQUIRED ERROR", "READY.">>
                    ELSE <<"?ERROR", "READY.">>)

\* LOAD followed by a number was answered with ?FILENAME REQUIRED ERROR and
\* READY.
C23_Witness ==
  /\ LineDone
  /\ typed = <<"LOAD", "1">>
  /\ out = <<"?FILENAME REQUIRED ERROR", "READY.">>

====
